---- MODULE Spec2Model ----
(***************************************************************************)
(* A model of spPaint3d's gui.py (scripts/sppaint3d/gui.py): the tool      *)
(* option object sp3dToolOption and Maya's optionVar store behind it, the  *)
(* object lists sp3dObjectList over a small scene, and the callbacks of    *)
(* the main window spPaint3dWin that drive them.                           *)
(*                                                                         *)
(* Floats are fixed-point integers counting thousandths (0.05 is 50, 10 is *)
(* 10000, the version 2022.0 is 2022000), so that round(x, 2) is a real    *)
(* conversion.  Python's None is the string "<None>", True returned next   *)
(* to a key is "<True>", and a missing DAG path is the empty path << >>.   *)
(***************************************************************************)
EXTENDS Integers, Sequences, FiniteSets, TLC

VARIABLES
    optionVar,   \* Maya's persisted optionVars: a function name -> value; its DOMAIN is the set of existing names
    uiValues,    \* the sp3dToolOption object: [attr |-> varname -> value, groupID |-> 0 (None) or a group number]
    nGroups,     \* how many spPaint3dOutput groups cmds.group has created in the scene
    alive,       \* the scene: the set of node names that exist
    sourceList,  \* spPaint3dWin.sourceList, an sp3dObjectList: [obj |-> key -> entry, i |-> index, auth |-> role]
    targetList,  \* spPaint3dWin.targetList
    uiList,      \* the two textScrollLists: [source |-> Seq of names, target |-> Seq of names]
    transform,   \* spPaint3dWin.transform: [id |-> object identity, cfg |-> the ranges]
    ctx,         \* spPaint3dWin.ctx: [kind |-> "<None>" | "PaintCtx" | "PlaceCtx", transform |-> id of the transform it holds]
    error,       \* sp3derror.error, the text shown in the status field
    win,         \* TRUE once spPaint3dWin.__init__ has run
    lastOp,      \* the last operation that ran: [op |-> name, list |-> "source" | "target" | "", arg |-> tuple]
    ret,         \* what the last operation returned
    budget,      \* how many more state-changing operations the behaviour may run
    stroke       \* the stroke of the context: [state |-> "Idle" | "Active", last |-> the last committed position,
                 \*   commits |-> what the stroke created, hits |-> the positions of its events that hit a target]

vars == <<optionVar, uiValues, nGroups, alive, sourceList, targetList, uiList,
          transform, ctx, error, win, lastOp, ret, budget, stroke>>

-----------------------------------------------------------------------------
(* Bounds of the model *)

MaxMissing == 1     \* how many optionVars an initial store may lack
MaxEdits == 3       \* how many callbacks of the window a behaviour of Spec runs
MaxListOps == 3     \* how many state-changing calls a behaviour of SpecList makes
MaxPicks == 4       \* how many getNext calls a behaviour of SpecPick runs
MaxLiveOps == 2     \* how many callbacks a behaviour of SpecLive runs on the running context
MaxCtxOps == 3      \* how many list callbacks and deletions a behaviour of SpecCtx runs
MaxSel == 1         \* how many nodes one selection holds
MaxDeleted == 1     \* how many scene nodes are deleted while the tool runs
MaxGroups == 2      \* how many output groups the scene may come to hold

-----------------------------------------------------------------------------
(* Python conversions *)

None == "<None>"
True == "<True>"
False == "<False>"

Restrict(f, S) == [x \in S |-> f[x]]

\* bool(n) of a number
PyBool(n) == n # 0

\* int(b) of a bool
PyInt(b) == IF b THEN 1 ELSE 0

\* round(x, 2) of a float in thousandths: the nearest hundredth, ties to even
PyRound2(x) ==
    LET a == IF x < 0 THEN -x ELSE x
        q == a \div 10
        r == a % 10
        up == IF r > 5 THEN 1 ELSE IF r < 5 THEN 0 ELSE q % 2
        m == (q + up) * 10
    IN  IF x < 0 THEN -m ELSE m

-----------------------------------------------------------------------------
(* The option schema *)

spPaint3dVersion == 2022000

\* the keys of sp3dOptionVars, in the dict's order
OptionNames ==
    << "sp3dTransformRotate", "sp3dTransformScale", "sp3dTransformScaleUniform",
       "sp3dInstance", "sp3dRandom", "sp3dAlign", "sp3dPaintFlux", "sp3dRampFX",
       "sp3dRealTimeRampFX", "sp3dPaintTimer", "sp3dPaintDistance", "sp3dPaintOffset",
       "sp3dPlaceRotate", "sp3dContinuousTransform", "sp3dJitter", "sp3dPreserveInConn",
       "sp3dSmoothNormal", "sp3dSetupHierarchy", "sp3dGroup", "sp3dVersion" >>

OptionNameSet == {OptionNames[k] : k \in 1..Len(OptionNames)}

Info(t, v, a) == [type |-> t, value |-> v, varname |-> a]

\* optionVar name: (type, default value, corresponding class attribute)
sp3dOptionVars ==
    [ sp3dTransformRotate       |-> Info("iv", 1, "transformRotate"),
      sp3dTransformScale        |-> Info("iv", 1, "transformScale"),
      sp3dTransformScaleUniform |-> Info("iv", 1, "transformScaleUniform"),
      sp3dInstance              |-> Info("iv", 0, "instance"),
      sp3dRandom                |-> Info("iv", 1, "random"),
      sp3dAlign                 |-> Info("iv", 1, "align"),
      sp3dPaintFlux             |-> Info("iv", 1, "paintFlux"),
      sp3dRampFX                |-> Info("fv", 0, "rampFX"),
      sp3dRealTimeRampFX        |-> Info("iv", 0, "realTimeRampFX"),
      sp3dPaintTimer            |-> Info("fv", 50, "paintTimer"),
      sp3dPaintDistance         |-> Info("fv", 10000, "paintDistance"),
      sp3dPaintOffset           |-> Info("fv", 0, "upOffset"),
      sp3dPlaceRotate           |-> Info("fv", 45000, "placeRotate"),
      sp3dContinuousTransform   |-> Info("iv", 0, "continuousTransform"),
      sp3dJitter                |-> Info("iv", 0, "jitter"),
      sp3dPreserveInConn        |-> Info("iv", 0, "preserveConn"),
      sp3dSmoothNormal          |-> Info("iv", 1, "smoothNormal"),
      sp3dSetupHierarchy        |-> Info("iv", 0, "hierarchy"),
      sp3dGroup                 |-> Info("fv", 0, "group"),
      sp3dVersion               |-> Info("fv", spPaint3dVersion, "version") ]

-----------------------------------------------------------------------------
(* Maya's optionVar command *)

\* cmds.optionVar(exists=name)
optionVarExists(store, name) == name \in DOMAIN store

\* cmds.optionVar(q=name): 0 when the variable does not exist
optionVarQuery(store, name) == IF name \in DOMAIN store THEN store[name] ELSE 0

\* cmds.optionVar(iv=(name, value)) and cmds.optionVar(fv=(name, value))
optionVarSet(store, name, value) ==
    [n \in DOMAIN store \cup {name} |-> IF n = name THEN value ELSE store[n]]

-----------------------------------------------------------------------------
(* sp3dToolOption *)

\* the attribute assignments at the top of sp3dToolOption.__init__
InitAttrs ==
    [ transformRotate       |-> TRUE,
      transformScale        |-> TRUE,
      transformScaleUniform |-> TRUE,
      instance              |-> FALSE,
      random                |-> TRUE,
      align                 |-> TRUE,
      paintFlux             |-> TRUE,
      jitter                |-> FALSE,
      rampFX                |-> 0,
      realTimeRampFX        |-> FALSE,
      paintTimer            |-> 50,
      paintDistance         |-> 10000,
      placeRotate           |-> 45000,
      continuousTransform   |-> FALSE,
      upOffset              |-> 0,
      preserveConn          |-> FALSE,
      smoothNormal          |-> FALSE,
      hierarchy             |-> FALSE,
      group                 |-> 0,
      version               |-> spPaint3dVersion ]

\* no sp3dToolOption object has been built yet
NoObject == [attr |-> [v \in {} |-> 0], groupID |-> 0]

HasObject(o) == DOMAIN o.attr # {}

\* self.__dict__[varname] = value
SetAttr(o, varname, value) ==
    [o EXCEPT !.attr = [v \in DOMAIN o.attr |-> IF v = varname THEN value ELSE o.attr[v]]]

RECURSIVE checkVarsFrom(_, _)
checkVarsFrom(store, k) ==
    IF k > Len(OptionNames) THEN TRUE
    ELSE LET name == OptionNames[k]
             value == sp3dOptionVars[name].value
         IN  IF ~optionVarExists(store, name) THEN FALSE
             ELSE IF name = "sp3dVersion" /\ optionVarQuery(store, name) # value THEN FALSE
             ELSE checkVarsFrom(store, k + 1)

\* checkVars without the comparison of the stored version
checkVars_NoVersion(store) == \A k \in 1..Len(OptionNames) : optionVarExists(store, OptionNames[k])

\* sp3dToolOption.checkVars: the loop over sp3dOptionVars with its early returns
checkVars(store) == checkVarsFrom(store, 1)

RECURSIVE loadVarsFrom(_, _, _)
loadVarsFrom(o, store, k) ==
    IF k > Len(OptionNames) THEN o
    ELSE LET name == OptionNames[k]
             info == sp3dOptionVars[name]
             o2 == IF info.type = "iv"
                   THEN SetAttr(o, info.varname, PyBool(optionVarQuery(store, name)))
                   ELSE IF info.type = "fv"
                   THEN SetAttr(o, info.varname, PyRound2(optionVarQuery(store, name)))
                   ELSE o
         IN  loadVarsFrom(o2, store, k + 1)

\* sp3dToolOption.loadVars: the object with every schema attribute read back
loadVars(o, store) == loadVarsFrom(o, store, 1)

RECURSIVE resetStoreFrom(_, _)
resetStoreFrom(store, k) ==
    IF k > Len(OptionNames) THEN store
    ELSE LET name == OptionNames[k]
             info == sp3dOptionVars[name]
             s2 == IF info.type \in {"iv", "fv"}
                   THEN optionVarSet(store, name, info.value)
                   ELSE store
         IN  resetStoreFrom(s2, k + 1)

\* resetVars without the loadVars that ends it
resetVars_NoLoad(o, store) == [uiValues |-> o, optionVar |-> resetStoreFrom(store, 1)]

\* sp3dToolOption.resetVars: the defaults written to the store, then loadVars
resetVars(o, store) ==
    LET s2 == resetStoreFrom(store, 1)
    IN  [uiValues |-> loadVars(o, s2), optionVar |-> s2]

RECURSIVE commitVarsFrom(_, _, _)
commitVarsFrom(o, store, k) ==
    IF k > Len(OptionNames) THEN store
    ELSE LET name == OptionNames[k]
             info == sp3dOptionVars[name]
             s2 == IF info.type = "iv"
                   THEN optionVarSet(store, name, PyInt(o.attr[info.varname]))
                   ELSE IF info.type = "fv"
                   THEN optionVarSet(store, name, o.attr[info.varname])
                   ELSE store
         IN  commitVarsFrom(o, s2, k + 1)

\* commitVars that writes only the names the store already holds
commitVars_OnlyExisting(o, store) == Restrict(commitVarsFrom(o, store, 1), DOMAIN store)

\* sp3dToolOption.commitVars: the store with every schema attribute written
commitVars(o, store) == commitVarsFrom(o, store, 1)

\* sp3dToolOption.__init__: the defaults, then loadVars on a valid store and
\* commitVars on an invalid one
sp3dToolOption_init(store) ==
    LET o == [attr |-> InitAttrs, groupID |-> 0]
    IN  IF checkVars(store)
        THEN [uiValues |-> loadVars(o, store), optionVar |-> store]
        ELSE [uiValues |-> o, optionVar |-> commitVars(o, store)]

\* getGroupID that creates a group at every call
getGroupID_AlwaysCreates(o, groups) ==
    [uiValues |-> [o EXCEPT !.groupID = groups + 1], nGroups |-> groups + 1, ret |-> groups + 1]

\* sp3dToolOption.getGroupID: [uiValues, nGroups, ret] given the groups in the scene
getGroupID(o, groups) ==
    IF o.groupID = 0
    THEN [uiValues |-> [o EXCEPT !.groupID = groups + 1], nGroups |-> groups + 1, ret |-> groups + 1]
    ELSE [uiValues |-> o, nGroups |-> groups, ret |-> o.groupID]

-----------------------------------------------------------------------------
(* The scene: five transforms and the shapes below them *)

\* cmds.objectType / cmds.nodeType of every node of the scene
NodeType ==
    [ pCube1        |-> "transform",  pCubeShape1   |-> "mesh",
      locator1      |-> "transform",  locatorShape1 |-> "locator",
      pair1         |-> "transform",  pairShapeA    |-> "mesh",
                                      pairShapeB    |-> "mesh",
      mixed1        |-> "transform",  mixedShape    |-> "mesh",
                                      mixedCurve    |-> "nurbsCurve",
      group1        |-> "transform" ]

\* the shapes directly below every node, in the scene's order
ShapeChildren ==
    [ pCube1        |-> << "pCubeShape1" >>,
      locator1      |-> << "locatorShape1" >>,
      pair1         |-> << "pairShapeA", "pairShapeB" >>,
      mixed1        |-> << "mixedShape", "mixedCurve" >>,
      group1        |-> << >>,
      pCubeShape1   |-> << >>,
      locatorShape1 |-> << >>,
      pairShapeA    |-> << >>,
      pairShapeB    |-> << >>,
      mixedShape    |-> << >>,
      mixedCurve    |-> << >> ]

Nodes == DOMAIN NodeType

\* the node names in the order of Python's string comparison
SortedNames ==
    << "group1", "locator1", "locatorShape1", "mixed1", "mixedCurve", "mixedShape",
       "pCube1", "pCubeShape1", "pair1", "pairShapeA", "pairShapeB" >>

Rank(n) == CHOOSE k \in 1..Len(SortedNames) : SortedNames[k] = n

InSeq(x, s) == \E k \in 1..Len(s) : s[k] = x

\* cmds.listRelatives(node, parent=True) or []
listRelativesParent(node, live) ==
    LET ps == {t \in live : InSeq(node, ShapeChildren[t])}
    IN  IF ps = {} THEN << >> ELSE << CHOOSE t \in ps : TRUE >>

\* cmds.listRelatives(node, children=True, shapes=True); << >> stands for None
listRelativesShapes(node, live) ==
    SelectSeq(ShapeChildren[node], LAMBDA c : c \in live)

\* cmds.listRelatives(node, fullPath=True, shapes=True): the paths from the root
listRelativesFullPath(node, live) ==
    LET cs == listRelativesShapes(node, live)
    IN  [k \in 1..Len(cs) |-> << node, cs[k] >>]

\* cmds.listRelatives(node, path=True, shapes=True): the shortest unique paths
listRelativesPath(node, live) ==
    LET cs == listRelativesShapes(node, live)
    IN  [k \in 1..Len(cs) |-> << cs[k] >>]

\* cmds.objExists of a path
objExists(path, live) == path # << >> /\ \A k \in 1..Len(path) : path[k] \in live

\* deleting a node deletes the shapes below it
DeleteNode(n, live) == live \ ({n} \cup {ShapeChildren[n][k] : k \in 1..Len(ShapeChildren[n])})

\* getDAGPath(node, depth): << >> is the None it returns
getDAGPath(node, depth, live) ==
    LET tempdag == IF NodeType[node] # "transform" THEN listRelativesParent(node, live) ELSE << >>
        node2 == IF NodeType[node] # "transform" /\ Len(tempdag) = 1 THEN tempdag[1] ELSE node
        nodetype == NodeType[node2]
        childlist == listRelativesShapes(node2, live)
        dag == IF nodetype = "transform" /\ Len(childlist) = 1
               THEN (IF depth THEN listRelativesFullPath(node2, live)
                              ELSE listRelativesPath(node2, live))
               ELSE << >>
    IN  IF dag # << >> THEN dag[1] ELSE << >>

-----------------------------------------------------------------------------
(* sp3dObjectList *)

Raise == "<raise>"

\* the list of authorized object type used when adding objects to lists
authType ==
    [ default |-> << "mesh" >>,
      source  |-> << "mesh", "locator" >>,
      target  |-> << "mesh" >> ]

AlreadyExistsMsg == "Object already exists in the list and can't be added again"
NoChildMsg == "Object doesn't seem to have any direct child of the proper type"
TooComplexMsg == "Does not compute (hierarchy too complex or whatever)"
NoCategoryMsg == "Object doesn't fit any valid category to be added to the list"

\* sp3dObjectList.__init__(authorized)
NewList(authorized) ==
    [obj |-> [k \in {} |-> 0], i |-> 0, auth |-> authType[authorized]]

Keys(list) == DOMAIN list.obj

\* self.obj[key] = (dag, activation, proba, align)
PutEntry(list, key, dag, activation, proba, align) ==
    [list EXCEPT !.obj = [k \in DOMAIN list.obj \cup {key} |->
        IF k = key THEN << dag, activation, proba, align >> ELSE list.obj[k]]]

\* alreadyExists that never finds the key
alreadyExists_Never(list, obj) == FALSE

\* sp3dObjectList.alreadyExists
alreadyExists(list, obj) == obj \in DOMAIN list.obj

\* addObj without its first test: a candidate that is a key already is stored again
addObj_NoFirstCheck(list, obj, activation, proba, align, live) ==
    IF obj \notin live
    THEN [list |-> list, ret |-> << Raise, "RuntimeError" >>]
    ELSE
    LET objtype == NodeType[obj]
        objchild == listRelativesShapes(obj, live)
    IN  IF InSeq(objtype, list.auth)
        THEN [list |-> PutEntry(list, obj, getDAGPath(obj, TRUE, live), activation, proba, align),
              ret |-> << obj, True >>]
        ELSE IF objtype = "transform"
        THEN IF objchild = << >>
             THEN [list |-> list, ret |-> << None, NoChildMsg >>]
             ELSE IF Len(objchild) = 1 /\ InSeq(NodeType[objchild[1]], list.auth)
             THEN LET child == objchild[1]
                  IN  IF alreadyExists(list, child)
                      THEN [list |-> list, ret |-> << None, AlreadyExistsMsg >>]
                      ELSE [list |-> PutEntry(list, child, getDAGPath(child, TRUE, live),
                                              activation, proba, align),
                            ret |-> << child, True >>]
             ELSE [list |-> list, ret |-> << None, TooComplexMsg >>]
        ELSE [list |-> list, ret |-> << None, NoCategoryMsg >>]

\* sp3dObjectList.addObj: [list |-> the list afterwards, ret |-> << key, True or the reason >>]
addObj(list, obj, activation, proba, align, live) ==
    IF alreadyExists(list, obj)
    THEN [list |-> list, ret |-> << None, AlreadyExistsMsg >>]
    ELSE IF obj \notin live
    THEN [list |-> list, ret |-> << Raise, "RuntimeError" >>]
    ELSE
    LET objtype == NodeType[obj]
        objchild == listRelativesShapes(obj, live)
    IN  IF InSeq(objtype, list.auth)
        THEN [list |-> PutEntry(list, obj, getDAGPath(obj, TRUE, live), activation, proba, align),
              ret |-> << obj, True >>]
        ELSE IF objtype = "transform"
        THEN IF objchild = << >>
             THEN [list |-> list, ret |-> << None, NoChildMsg >>]
             ELSE IF Len(objchild) = 1 /\ InSeq(NodeType[objchild[1]], list.auth)
             THEN LET child == objchild[1]
                  IN  IF alreadyExists(list, child)
                      THEN [list |-> list, ret |-> << None, AlreadyExistsMsg >>]
                      ELSE [list |-> PutEntry(list, child, getDAGPath(child, TRUE, live),
                                              activation, proba, align),
                            ret |-> << child, True >>]
             ELSE [list |-> list, ret |-> << None, TooComplexMsg >>]
        ELSE [list |-> list, ret |-> << None, NoCategoryMsg >>]

\* delObj that also puts the index back to 0
delObj_ResetsIndex(list, obj) ==
    IF obj \in DOMAIN list.obj
    THEN [list |-> [list EXCEPT !.obj = [k \in DOMAIN list.obj \ {obj} |-> list.obj[k]], !.i = 0],
          ret |-> None]
    ELSE [list |-> list, ret |-> Raise]

\* sp3dObjectList.delObj: del self.obj[obj], a KeyError when obj is no key
delObj(list, obj) ==
    IF obj \in DOMAIN list.obj
    THEN [list |-> [list EXCEPT !.obj = [k \in DOMAIN list.obj \ {obj} |-> list.obj[k]]],
          ret |-> None]
    ELSE [list |-> list, ret |-> Raise]

\* clrObj that leaves the index where it was
clrObj_KeepsIndex(list) == [list EXCEPT !.obj = [k \in {} |-> 0]]

\* sp3dObjectList.clrObj
clrObj(list) == [list EXCEPT !.obj = [k \in {} |-> 0], !.i = 0]

\* sp3dObjectList.validateObjects: the results it can give.  The dict is walked in
\* an order the model does not fix, and the walk ends at the first entry whose
\* path does not exist (False) or is None (cmds.objExists(None) is a TypeError).
validateObjects(list, live) ==
    IF Keys(list) = {} THEN {False}
    ELSE LET none == {k \in Keys(list) : list.obj[k][1] = << >>}
             dead == {k \in Keys(list) : list.obj[k][1] # << >> /\ ~objExists(list.obj[k][1], live)}
         IN  IF none = {} /\ dead = {} THEN {True}
             ELSE (IF none # {} THEN {Raise} ELSE {}) \cup (IF dead # {} THEN {False} ELSE {})

\* hasDuplicate that asks for every key of the other list
hasDuplicate_AllKeys(list, compareobjlist) ==
    \A obj \in Keys(compareobjlist) : alreadyExists(list, obj)

\* sp3dObjectList.hasDuplicate
hasDuplicate(list, compareobjlist) ==
    \E obj \in Keys(compareobjlist) : alreadyExists(list, obj)

RECURSIVE SortKeys(_)
\* dkeys = list(keys); dkeys.sort()
SortKeys(S) ==
    IF S = {} THEN << >>
    ELSE LET m == CHOOSE x \in S : \A y \in S : Rank(x) <= Rank(y)
         IN  << m >> \o SortKeys(S \ {m})

\* getNext that does not move the index
\* getNext that counts the call before it fails on an empty list
getNext_CountsFailedCall(list) ==
    IF Keys(list) = {} THEN [list |-> [list EXCEPT !.i = list.i + 1], ret |-> << Raise >>]
    ELSE LET dkeys == SortKeys(Keys(list))
             dag == list.obj[dkeys[(list.i % Len(dkeys)) + 1]]
         IN  [list |-> [list EXCEPT !.i = list.i + 1], ret |-> dag[1]]

\* getNext that stores the index reduced modulo the number of keys
getNext_Wraps(list) ==
    IF Keys(list) = {} THEN [list |-> list, ret |-> << Raise >>]
    ELSE LET dkeys == SortKeys(Keys(list))
             dag == list.obj[dkeys[(list.i % Len(dkeys)) + 1]]
         IN  [list |-> [list EXCEPT !.i = (list.i + 1) % Len(dkeys)], ret |-> dag[1]]

getNext_NoAdvance(list) ==
    IF Keys(list) = {} THEN [list |-> list, ret |-> << Raise >>]
    ELSE LET dkeys == SortKeys(Keys(list))
             dag == list.obj[dkeys[(list.i % Len(dkeys)) + 1]]
         IN  [list |-> list, ret |-> dag[1]]

\* getNext that walks the enabled entries only
getNext_SkipsDisabled(list) ==
    LET enabled == {k \in Keys(list) : list.obj[k][2]}
    IN  IF enabled = {} THEN [list |-> list, ret |-> << Raise >>]
        ELSE LET dkeys == SortKeys(enabled)
                 dag == list.obj[dkeys[(list.i % Len(dkeys)) + 1]]
             IN  [list |-> [list EXCEPT !.i = list.i + 1], ret |-> dag[1]]

\* sp3dObjectList.getNext: a ZeroDivisionError on an empty list
getNext(list) ==
    IF Keys(list) = {} THEN [list |-> list, ret |-> << Raise >>]
    ELSE LET dkeys == SortKeys(Keys(list))
             dag == list.obj[dkeys[(list.i % Len(dkeys)) + 1]]
         IN  [list |-> [list EXCEPT !.i = list.i + 1], ret |-> dag[1]]

\* sp3dObjectList.getRandom: the paths rand.randint can select; a ValueError on
\* an empty list
getRandom(list, weighted) ==
    IF Keys(list) = {} THEN {<< Raise >>}
    ELSE {list.obj[k][1] : k \in Keys(list)}

-----------------------------------------------------------------------------
(* The inputs of the model *)

\* what a float field or slider of the window can hand to its callback
FieldInputs == {0, 73, 500}

\* the attributes of an options object a session has edited through the window
EditedAttrs ==
    [InitAttrs EXCEPT !.transformRotate = FALSE, !.instance = TRUE, !.smoothNormal = TRUE,
                      !.paintTimer = 73, !.upOffset = 500, !.rampFX = 3000, !.group = 2000]

\* the store a run of this version leaves behind: reset to the defaults, or
\* committed from an edited options object
DefaultStore == resetStoreFrom([n \in {} |-> 0], 1)
EditedStore == commitVars([attr |-> EditedAttrs, groupID |-> 0], [n \in {} |-> 0])

\* the stored sp3dVersion values: the one of version 2021.0 and the running one
StoredVersions == {2021000, spPaint3dVersion}

\* the stores a session can find: no optionVar at all (the first run), or the
\* store of an earlier run of this or of the older version, some names missing
InitStores ==
    { [n \in {} |-> 0] } \cup
    { Restrict(optionVarSet(base, "sp3dVersion", v), (DOMAIN base \cup {"sp3dVersion"}) \ missing) :
        base \in {DefaultStore, EditedStore},
        v \in StoredVersions,
        missing \in {m \in SUBSET OptionNameSet : Cardinality(m) <= MaxMissing} }

\* the options objects a caller can hold: none, a fresh one, an edited one
InitObjects ==
    { NoObject, [attr |-> InitAttrs, groupID |-> 0], [attr |-> EditedAttrs, groupID |-> 0] }

\* sp3dTransform.__init__ with its default arguments
DefaultTransformCfg ==
    [rotate |-> << <<0, 0>>, <<0, 0>>, <<0, 0>> >>,
     scale |-> << <<1000, 1000>>, <<1000, 1000>>, <<1000, 1000>> >>,
     uJitter |-> <<0, 0>>, vJitter |-> <<0, 0>>]

\* sp3dTransform(rotate, scale, uJitter, vJitter): a new object, told apart by id
sp3dTransform(id, cfg) == [id |-> id, cfg |-> cfg]

NoCtx == [kind |-> None, transform |-> 0]

\* the stroke state of a context that has not been painted with: Idle, no
\* committed position, nothing created, no event that hit a target
NoStroke == [state |-> "Idle", last |-> << >>, commits |-> << >>, hits |-> << >>]

NoOp == [op |-> "", list |-> "", arg |-> << >>]

Op(name, list, arg) == [op |-> name, list |-> list, arg |-> arg]

\* whether the store passes checkVars, as kept in lastOp.arg: the store the
\* operation found
Valid(store) == IF checkVars(store) THEN True ELSE False

-----------------------------------------------------------------------------
(* SpecOpt: the methods of one sp3dToolOption object, called one at a time *)

InitOpt ==
    /\ optionVar \in InitStores
    /\ uiValues \in InitObjects
    /\ nGroups = 0
    /\ alive = Nodes
    /\ sourceList = NewList("source")
    /\ targetList = NewList("target")
    /\ uiList = [source |-> << >>, target |-> << >>]
    /\ transform = sp3dTransform(0, DefaultTransformCfg)
    /\ ctx = NoCtx
    /\ error = ""
    /\ win = FALSE
    /\ lastOp = NoOp
    /\ ret = None
    /\ budget = 0
    /\ stroke = NoStroke

OnlyOptions == UNCHANGED <<alive, sourceList, targetList, uiList, transform, ctx, error, win, budget>>

\* uiValues = sp3dToolOption()
Call_init ==
    /\ LET r == sp3dToolOption_init(optionVar)
       IN  /\ uiValues' = r.uiValues
           /\ optionVar' = r.optionVar
    /\ lastOp' = Op("__init__", "", << Valid(optionVar) >>)
    /\ ret' = None
    /\ UNCHANGED nGroups
    /\ OnlyOptions
    /\ UNCHANGED stroke

\* uiValues.checkVars()
Call_checkVars ==
    /\ HasObject(uiValues)
    /\ lastOp' = Op("checkVars", "", << Valid(optionVar) >>)
    /\ ret' = checkVars(optionVar)
    /\ UNCHANGED <<uiValues, optionVar, nGroups>>
    /\ OnlyOptions
    /\ UNCHANGED stroke

\* uiValues.loadVars()
Call_loadVars ==
    /\ HasObject(uiValues)
    /\ uiValues' = loadVars(uiValues, optionVar)
    /\ lastOp' = Op("loadVars", "", << Valid(optionVar) >>)
    /\ ret' = None
    /\ UNCHANGED <<optionVar, nGroups>>
    /\ OnlyOptions
    /\ UNCHANGED stroke

\* uiValues.resetVars()
Call_resetVars ==
    /\ HasObject(uiValues)
    /\ LET r == resetVars(uiValues, optionVar)
       IN  /\ uiValues' = r.uiValues
           /\ optionVar' = r.optionVar
    /\ lastOp' = Op("resetVars", "", << Valid(optionVar) >>)
    /\ ret' = None
    /\ UNCHANGED nGroups
    /\ OnlyOptions
    /\ UNCHANGED stroke

\* uiValues.commitVars()
Call_commitVars ==
    /\ HasObject(uiValues)
    /\ optionVar' = commitVars(uiValues, optionVar)
    /\ lastOp' = Op("commitVars", "", << Valid(optionVar) >>)
    /\ ret' = None
    /\ UNCHANGED <<uiValues, nGroups>>
    /\ OnlyOptions
    /\ UNCHANGED stroke

\* uiValues.getGroupID()
Call_getGroupID ==
    /\ HasObject(uiValues)
    /\ uiValues.groupID # 0 \/ nGroups < MaxGroups
    /\ LET r == getGroupID(uiValues, nGroups)
       IN  /\ uiValues' = r.uiValues
           /\ nGroups' = r.nGroups
           /\ ret' = r.ret
    /\ lastOp' = Op("getGroupID", "", << IF uiValues.groupID = 0 THEN "created" ELSE "reused" >>)
    /\ UNCHANGED optionVar
    /\ OnlyOptions
    /\ UNCHANGED stroke

NextOpt ==
    \/ Call_init
    \/ Call_checkVars
    \/ Call_loadVars
    \/ Call_resetVars
    \/ Call_commitVars
    \/ Call_getGroupID

SpecOpt == InitOpt /\ [][NextOpt]_vars

-----------------------------------------------------------------------------
(* spPaint3dWin: the option callbacks *)

\* getBoolFromMayaControl(uicontrol, version): Maya hands the state over as a
\* string before 2011 and as a bool from 2011 on
getBoolFromMayaControl(uicontrol, version) ==
    IF version - 2011 >= 0 THEN uicontrol ELSE uicontrol = "true"

\* what a checkbox hands to its callback, with the Maya version it runs in
ControlStates == { <<2022, TRUE>>, <<2022, FALSE>>, <<2010, "true">>, <<2010, "false">> }

\* the attributes wired to uiCheckBoxCallback
CheckBoxAttrs ==
    { "transformRotate", "transformScale", "transformScaleUniform", "jitter",
      "instance", "random", "align" }

\* context.runtimeUpdate(uiValues, transform, sourceList, targetList): the context
\* keeps the objects it is handed; the options object and the two lists are the
\* window's own for as long as the window lives, the transform object is replaced
runtimeUpdate(c, o, tr, src, tgt) == [c EXCEPT !.transform = tr.id]

\* spPaint3dWin.updateCtx
updateCtx(c, o, tr, src, tgt) ==
    IF c.kind # None THEN runtimeUpdate(c, o, tr, src, tgt) ELSE c

StartText == "spPaint3d 2022.0 | Sebastien Paviot - 2009-2022"

\* spPaint3dWin.__init__: the window is built anew, with a new transform, a new
\* options object, two empty lists and no context
spPaint3dWin_init ==
    /\ budget > 0
    /\ LET r == sp3dToolOption_init(optionVar)
       IN  /\ uiValues' = r.uiValues
           /\ optionVar' = r.optionVar
    /\ transform' = sp3dTransform(budget, DefaultTransformCfg)
    /\ sourceList' = NewList("source")
    /\ targetList' = NewList("target")
    /\ uiList' = [source |-> << >>, target |-> << >>]
    /\ ctx' = NoCtx
    /\ error' = StartText
    /\ win' = TRUE
    /\ lastOp' = Op("spPaint3dWin", "", << Valid(optionVar) >>)
    /\ ret' = None
    /\ budget' = budget - 1
    /\ UNCHANGED <<nGroups, alive>>
    /\ stroke' = NoStroke

\* what an option callback leaves alone
OptionEditFrame == UNCHANGED <<nGroups, alive, sourceList, targetList, uiList, transform, error, win>>

\* the end of an option callback of the main window: commitVars, then updateCtx
CommitAndUpdate(o, name, arg) ==
    /\ uiValues' = o
    /\ optionVar' = commitVars(o, optionVar)
    /\ ctx' = updateCtx(ctx, o, transform, sourceList, targetList)
    /\ lastOp' = Op(name, "", arg)
    /\ ret' = None
    /\ budget' = budget - 1
    /\ OptionEditFrame

\* spPaint3dWin.uiCheckBoxCallback(varname, (state,))
uiCheckBoxCallback ==
    /\ win /\ budget > 0
    /\ \E varname \in CheckBoxAttrs, c \in ControlStates :
         CommitAndUpdate(SetAttr(uiValues, varname, getBoolFromMayaControl(c[2], c[1])),
                         "uiCheckBoxCallback", << varname >>)
    /\ UNCHANGED stroke

\* spPaint3dWin.uiFluxCallback(varname, (value,))
uiFluxCallback ==
    /\ win /\ budget > 0
    /\ \E varname \in {"paintTimer", "paintDistance"}, v \in FieldInputs :
         CommitAndUpdate(SetAttr(uiValues, varname, v), "uiFluxCallback", << varname >>)
    /\ UNCHANGED stroke

\* spPaint3dWin.uiPaintOffsetCallback("upOffset", (value,))
uiPaintOffsetCallback ==
    /\ win /\ budget > 0
    /\ \E v \in FieldInputs :
         CommitAndUpdate(SetAttr(uiValues, "upOffset", v), "uiPaintOffsetCallback", << "upOffset" >>)
    /\ UNCHANGED stroke

\* the rampFX value of a menu item
RampValue(item) ==
    IF item = "rotate" THEN 1000
    ELSE IF item = "scale" THEN 2000
    ELSE IF item = "both" THEN 3000
    ELSE 0

\* spPaint3dWin.uiRampMenuCallback("rampMenu", (item,))
uiRampMenuCallback ==
    /\ win /\ budget > 0
    /\ \E item \in {" ", "rotate", "scale", "both"} :
         CommitAndUpdate(SetAttr(uiValues, "rampFX", RampValue(item)),
                         "uiRampMenuCallback", << "rampFX" >>)
    /\ UNCHANGED stroke

\* spPaint3dWin.uiSetupPlaceRotateCallback("placeRotate", (value,))
uiSetupPlaceRotateCallback ==
    /\ win /\ budget > 0
    /\ \E v \in FieldInputs :
         CommitAndUpdate(SetAttr(uiValues, "placeRotate", v),
                         "uiSetupPlaceRotateCallback", << "placeRotate" >>)
    /\ UNCHANGED stroke

\* the controls of the setup window wired to setupCallback, and what each hands over
SetupControls ==
    ({"uiSetupNormalCol", "uiSetupFluxCol"} \X {<<2022, TRUE>>, <<2022, FALSE>>})
    \cup ({"uiSetupChkInputConn", "uiSetupHierarchyActive", "uiSetupRealTimeRampFX",
           "uiSetupContinuousTransform"} \X ControlStates)
    \cup ({"uiSetupHierarchySession", "uiSetupHierarchyStroke", "uiSetupHierarchySource"}
           \X {<<2022, TRUE>>})

\* the assignment setupCallback makes for a control
setupAssign(o, radiocol, c) ==
    IF radiocol = "uiSetupNormalCol" THEN SetAttr(o, "smoothNormal", c[2])
    ELSE IF radiocol = "uiSetupFluxCol" THEN SetAttr(o, "paintFlux", c[2])
    ELSE IF radiocol = "uiSetupChkInputConn"
         THEN SetAttr(o, "preserveConn", getBoolFromMayaControl(c[2], c[1]))
    ELSE IF radiocol = "uiSetupHierarchyActive"
         THEN SetAttr(o, "hierarchy", getBoolFromMayaControl(c[2], c[1]))
    ELSE IF radiocol = "uiSetupRealTimeRampFX"
         THEN SetAttr(o, "realTimeRampFX", getBoolFromMayaControl(c[2], c[1]))
    ELSE IF radiocol = "uiSetupHierarchySession" THEN SetAttr(o, "group", 0)
    ELSE IF radiocol = "uiSetupHierarchyStroke" THEN SetAttr(o, "group", 1000)
    ELSE IF radiocol = "uiSetupHierarchySource" THEN SetAttr(o, "group", 2000)
    ELSE IF radiocol = "uiSetupContinuousTransform"
         THEN SetAttr(o, "continuousTransform", getBoolFromMayaControl(c[2], c[1]))
    ELSE o

\* setupCallback without its commitVars
setupCallback_NoCommit ==
    /\ win /\ budget > 0
    /\ \E sc \in SetupControls :
         /\ uiValues' = setupAssign(uiValues, sc[1], sc[2])
         /\ lastOp' = Op("setupCallback", "", << sc[1] >>)
    /\ ret' = None
    /\ budget' = budget - 1
    /\ UNCHANGED <<ctx, optionVar>>
    /\ OptionEditFrame
    /\ UNCHANGED stroke

\* spPaint3dWin.setupCallback(control, value): the assignment, commitVars and the
\* refresh of the controls; the context is not updated
setupCallback ==
    /\ win /\ budget > 0
    /\ \E sc \in SetupControls :
         /\ uiValues' = setupAssign(uiValues, sc[1], sc[2])
         /\ optionVar' = commitVars(uiValues', optionVar)
         /\ lastOp' = Op("setupCallback", "", << sc[1] >>)
    /\ ret' = None
    /\ budget' = budget - 1
    /\ UNCHANGED ctx
    /\ OptionEditFrame
    /\ UNCHANGED stroke

\* spPaint3dWin.resetOptions (the Reset button of the setup window): resetVars,
\* the refresh of the controls and uiTransformReset, which builds a new transform;
\* the context is not updated
resetOptions ==
    /\ win /\ budget > 0
    /\ LET r == resetVars(uiValues, optionVar)
       IN  /\ uiValues' = r.uiValues
           /\ optionVar' = r.optionVar
    /\ transform' = sp3dTransform(budget, DefaultTransformCfg)
    /\ lastOp' = Op("resetOptions", "", << Valid(optionVar) >>)
    /\ ret' = None
    /\ budget' = budget - 1
    /\ UNCHANGED <<nGroups, alive, sourceList, targetList, uiList, ctx, error, win>>
    /\ UNCHANGED stroke

\* the ranges the fields of the window can hold when uiTransformCallback reads them
FieldTransformCfgs ==
    { DefaultTransformCfg,
      [DefaultTransformCfg EXCEPT !.rotate = << <<0, 90000>>, <<0, 0>>, <<-45000, 45000>> >>,
                                  !.scale = << <<500, 2000>>, <<1000, 1000>>, <<1000, 3000>> >>,
                                  !.uJitter = <<-73, 73>>] }

\* spPaint3dWin.uiTransformCallback: a new transform from the fields, then updateCtx
uiTransformCallback ==
    /\ win /\ budget > 0
    /\ \E cfg \in FieldTransformCfgs :
         /\ transform' = sp3dTransform(budget, cfg)
         /\ ctx' = updateCtx(ctx, uiValues, transform', sourceList, targetList)
    /\ lastOp' = Op("uiTransformCallback", "", << >>)
    /\ ret' = None
    /\ budget' = budget - 1
    /\ UNCHANGED <<optionVar, uiValues, nGroups, alive, sourceList, targetList, uiList, error, win>>
    /\ UNCHANGED stroke

-----------------------------------------------------------------------------
(* Spec: the window and its option callbacks, from the store a session finds *)

Init ==
    /\ optionVar \in InitStores
    /\ uiValues = NoObject
    /\ nGroups = 0
    /\ alive = Nodes
    /\ sourceList = NewList("source")
    /\ targetList = NewList("target")
    /\ uiList = [source |-> << >>, target |-> << >>]
    /\ transform = sp3dTransform(0, DefaultTransformCfg)
    /\ ctx = NoCtx
    /\ error = ""
    /\ win = FALSE
    /\ lastOp = NoOp
    /\ ret = None
    /\ budget = MaxEdits
    /\ stroke = NoStroke

Next ==
    \/ spPaint3dWin_init
    \/ uiCheckBoxCallback
    \/ uiFluxCallback
    \/ uiPaintOffsetCallback
    \/ uiRampMenuCallback
    \/ uiSetupPlaceRotateCallback
    \/ setupCallback
    \/ resetOptions
    \/ uiTransformCallback

Spec == Init /\ [][Next]_vars

-----------------------------------------------------------------------------
(* SpecList: the methods of the two sp3dObjectList objects of a window, called *)
(* one at a time on the nodes of the scene, while nodes are deleted            *)

InitList ==
    /\ optionVar = DefaultStore
    /\ uiValues = [attr |-> InitAttrs, groupID |-> 0]
    /\ nGroups = 0
    /\ alive = Nodes
    /\ sourceList = NewList("source")
    /\ targetList = NewList("target")
    /\ uiList = [source |-> << >>, target |-> << >>]
    /\ transform = sp3dTransform(0, DefaultTransformCfg)
    /\ ctx = NoCtx
    /\ error = ""
    /\ win = FALSE
    /\ lastOp = NoOp
    /\ ret = None
    /\ budget = MaxListOps
    /\ stroke = NoStroke

ListNames == {"source", "target"}

\* the object list of a name
ListOf(l) == IF l = "source" THEN sourceList ELSE targetList

\* the object list of a name becomes v, the other one stays
SetList(l, v) ==
    IF l = "source" THEN sourceList' = v /\ UNCHANGED targetList
                    ELSE targetList' = v /\ UNCHANGED sourceList

OnlyLists == UNCHANGED <<optionVar, uiValues, nGroups, uiList, transform, ctx, error, win>>

\* the activation flags addObj is called with: the target list does not use them
Activations(l) == IF l = "source" THEN BOOLEAN ELSE {TRUE}

\* list.addObj(obj, activation=...) for a node of the scene
Call_addObj ==
    /\ budget > 0
    /\ \E l \in ListNames, obj \in alive :
         \E activation \in Activations(l) :
           LET r == addObj(ListOf(l), obj, activation, 500, "Up", alive)
           IN  /\ SetList(l, r.list)
               /\ ret' = r.ret
               /\ lastOp' = Op("addObj", l, << obj >>)
    /\ budget' = budget - 1
    /\ UNCHANGED alive
    /\ OnlyLists
    /\ UNCHANGED stroke

\* list.delObj(key) for a key of the list
Call_delObj ==
    /\ budget > 0
    /\ \E l \in ListNames :
         \E obj \in Keys(ListOf(l)) :
           LET r == delObj(ListOf(l), obj)
           IN  /\ SetList(l, r.list)
               /\ ret' = r.ret
               /\ lastOp' = Op("delObj", l, << obj >>)
    /\ budget' = budget - 1
    /\ UNCHANGED alive
    /\ OnlyLists
    /\ UNCHANGED stroke

\* list.clrObj(); lastOp.arg keeps how many keys and which index the list had
Call_clrObj ==
    /\ budget > 0
    /\ \E l \in ListNames :
         /\ SetList(l, clrObj(ListOf(l)))
         /\ lastOp' = Op("clrObj", l, << Cardinality(Keys(ListOf(l))), ListOf(l).i >>)
    /\ ret' = None
    /\ budget' = budget - 1
    /\ UNCHANGED alive
    /\ OnlyLists
    /\ UNCHANGED stroke

\* list.validateObjects()
Call_validateObjects ==
    /\ \E l \in ListNames :
         /\ ret' \in validateObjects(ListOf(l), alive)
         /\ lastOp' = Op("validateObjects", l, << >>)
    /\ UNCHANGED <<sourceList, targetList, alive, budget>>
    /\ OnlyLists
    /\ UNCHANGED stroke

\* list.hasDuplicate(the other list)
Call_hasDuplicate ==
    /\ \E l \in ListNames :
         /\ ret' = hasDuplicate(ListOf(l), ListOf(CHOOSE m \in ListNames : m # l))
         /\ lastOp' = Op("hasDuplicate", l, << >>)
    /\ UNCHANGED <<sourceList, targetList, alive, budget>>
    /\ OnlyLists
    /\ UNCHANGED stroke

\* sourceList.getNext()
Call_getNext ==
    /\ budget > 0
    /\ LET r == getNext(sourceList)
       IN  /\ sourceList' = r.list
           /\ ret' = r.ret
    /\ lastOp' = Op("getNext", "source", << >>)
    /\ budget' = budget - 1
    /\ UNCHANGED <<targetList, alive>>
    /\ OnlyLists
    /\ UNCHANGED stroke

\* sourceList.getRandom(weighted)
Call_getRandom ==
    /\ \E weighted \in BOOLEAN :
         /\ ret' \in getRandom(sourceList, weighted)
         /\ lastOp' = Op("getRandom", "source", << IF weighted THEN True ELSE False >>)
    /\ UNCHANGED <<sourceList, targetList, alive, budget>>
    /\ OnlyLists
    /\ UNCHANGED stroke

\* the user deletes a node of the scene while the tool runs
SceneDelete ==
    /\ budget > 0
    /\ Cardinality(Nodes \ alive) < MaxDeleted
    /\ \E n \in alive :
         /\ alive' = DeleteNode(n, alive)
         /\ lastOp' = Op("delete", "", << n >>)
    /\ ret' = None
    /\ budget' = budget - 1
    /\ UNCHANGED <<sourceList, targetList>>
    /\ OnlyLists
    /\ UNCHANGED stroke

NextList ==
    \/ Call_addObj
    \/ Call_delObj
    \/ Call_clrObj
    \/ Call_validateObjects
    \/ Call_hasDuplicate
    \/ Call_getNext
    \/ Call_getRandom
    \/ SceneDelete

SpecList == InitList /\ [][NextList]_vars

-----------------------------------------------------------------------------
(* sp3dTransform: the random draws *)

\* round(x, 3) of a float in ten-thousandths, as thousandths: the nearest
\* thousandth, ties to even
PyRound3(x) ==
    LET a == IF x < 0 THEN -x ELSE x
        q == a \div 10
        r == a % 10
        up == IF r > 5 THEN 1 ELSE IF r < 5 THEN 0 ELSE q % 2
    IN  IF x < 0 THEN -(q + up) ELSE q + up

\* rand.uniform that can pass the larger of its bounds
Uniform_PastMax(a, b) ==
    IF a = b THEN { 10 * a }
    ELSE LET lo == IF a < b THEN a ELSE b
             hi == IF a < b THEN b ELSE a
         IN  { 10 * lo, 5 * (lo + hi), 10 * hi + 10 }

\* rand.uniform(a, b) = a + (b - a) * random() for a and b in thousandths: some
\* of the floats it can give, in ten-thousandths; a itself when a = b
Uniform(a, b) ==
    IF a = b THEN { 10 * a }
    ELSE LET lo == IF a < b THEN a ELSE b
             hi == IF a < b THEN b ELSE a
         IN  { 10 * lo, 10 * lo + 4, 10 * lo + 5, 5 * (lo + hi), 10 * hi - 5, 10 * hi - 4 }

\* round(rand.uniform(range[0], range[1]), 3): the thousandths it can give
RoundedDraws(range) == { PyRound3(d) : d \in Uniform(range[1], range[2]) }

\* getRandomScale that draws for every axis when uniform is set too
getRandomScale_UniformPerAxis(cfg, uniform) ==
    { << vx, vy, vz >> : vx \in RoundedDraws(cfg.scale[1]),
                         vy \in RoundedDraws(cfg.scale[2]),
                         vz \in RoundedDraws(cfg.scale[3]) }

\* getRandomScale that draws the three components from the x range
getRandomScale_AllFromX(cfg, uniform) ==
    IF uniform
    THEN { << v, v, v >> : v \in RoundedDraws(cfg.scale[1]) }
    ELSE { << vx, vy, vz >> : vx \in RoundedDraws(cfg.scale[1]),
                              vy \in RoundedDraws(cfg.scale[1]),
                              vz \in RoundedDraws(cfg.scale[1]) }

\* sp3dTransform.getRandomScale(uniform): the tuples it can return
getRandomScale(cfg, uniform) ==
    IF uniform
    THEN { << v, v, v >> : v \in RoundedDraws(cfg.scale[1]) }
    ELSE { << vx, vy, vz >> : vx \in RoundedDraws(cfg.scale[1]),
                              vy \in RoundedDraws(cfg.scale[2]),
                              vz \in RoundedDraws(cfg.scale[3]) }

\* sp3dTransform.getRandomRotate(): the tuples it can return
getRandomRotate(cfg) ==
    { << vx, vy, vz >> : vx \in RoundedDraws(cfg.rotate[1]),
                         vy \in RoundedDraws(cfg.rotate[2]),
                         vz \in RoundedDraws(cfg.rotate[3]) }

\* sp3dTransform.getRandomJitter(space): the values it can return
getRandomJitter(cfg, space) ==
    RoundedDraws(IF space = "uJitter" THEN cfg.uJitter ELSE cfg.vJitter)

-----------------------------------------------------------------------------
(* SpecTransform: the draws of one sp3dTransform object, called one at a time *)

\* the (min, max) pairs the scale fields hold: the default, another single
\* value, a range, a range typed the wrong way round
ScaleRanges == { <<1000, 1000>>, <<2000, 2000>>, <<500, 2000>>, <<3000, 1000>> }

\* the transforms the calls are made on
TransformCfgs ==
    { [rotate |-> r, scale |-> << sx, sy, sz >>, uJitter |-> u, vJitter |-> <<0, 0>>] :
        r \in { DefaultTransformCfg.rotate, << <<0, 90000>>, <<0, 0>>, <<-45000, 45000>> >> },
        sx \in ScaleRanges, sy \in ScaleRanges, sz \in ScaleRanges,
        u \in { <<0, 0>>, <<-73, 73>> } }

InitTransform ==
    /\ optionVar = DefaultStore
    /\ uiValues = [attr |-> InitAttrs, groupID |-> 0]
    /\ nGroups = 0
    /\ alive = Nodes
    /\ sourceList = NewList("source")
    /\ targetList = NewList("target")
    /\ uiList = [source |-> << >>, target |-> << >>]
    /\ transform \in { sp3dTransform(0, cfg) : cfg \in TransformCfgs }
    /\ ctx = NoCtx
    /\ error = ""
    /\ win = FALSE
    /\ lastOp = NoOp
    /\ ret = None
    /\ budget = 0
    /\ stroke = NoStroke

OnlyDraw ==
    UNCHANGED <<optionVar, uiValues, nGroups, alive, sourceList, targetList, uiList,
                transform, ctx, error, win, budget>>

\* transform.getRandomScale(uniform)
Call_getRandomScale ==
    /\ \E uniform \in BOOLEAN :
         /\ ret' \in getRandomScale(transform.cfg, uniform)
         /\ lastOp' = Op("getRandomScale", "", << IF uniform THEN True ELSE False >>)
    /\ OnlyDraw
    /\ UNCHANGED stroke

\* transform.getRandomRotate()
Call_getRandomRotate ==
    /\ ret' \in getRandomRotate(transform.cfg)
    /\ lastOp' = Op("getRandomRotate", "", << >>)
    /\ OnlyDraw
    /\ UNCHANGED stroke

\* transform.getRandomJitter(space)
Call_getRandomJitter ==
    /\ \E space \in {"uJitter", "vJitter"} :
         /\ \E v \in getRandomJitter(transform.cfg, space) : ret' = << v >>
         /\ lastOp' = Op("getRandomJitter", "", << space >>)
    /\ OnlyDraw
    /\ UNCHANGED stroke

NextTransform ==
    \/ Call_getRandomScale
    \/ Call_getRandomRotate
    \/ Call_getRandomJitter

SpecTransform == InitTransform /\ [][NextTransform]_vars

-----------------------------------------------------------------------------
(* SpecPick: getNext and getRandom called on a source list that addObj has *)
(* filled, with entries enabled or not and of different weights            *)

\* the nodes the source list is filled from: a transform with a mesh, a
\* transform with a locator, a mesh whose transform holds a second shape
PickNodes == {"pCube1", "locator1", "mixedShape"}

\* the proba values addObj is called with
Probas == {0, 500}

\* the source list after addObj of every node of S, each with an activation
\* flag and a proba
RECURSIVE FilledFrom(_, _)
FilledFrom(list, S) ==
    IF S = {} THEN { list }
    ELSE LET n == CHOOSE x \in S : TRUE
         IN  UNION { FilledFrom(addObj(list, n, activation, proba, "Up", Nodes).list, S \ {n}) :
                        activation \in BOOLEAN, proba \in Probas }

FilledSources == UNION { FilledFrom(NewList("source"), S) : S \in SUBSET PickNodes }

InitPick ==
    /\ optionVar = DefaultStore
    /\ uiValues = [attr |-> InitAttrs, groupID |-> 0]
    /\ nGroups = 0
    /\ alive = Nodes
    /\ sourceList \in FilledSources
    /\ targetList = NewList("target")
    /\ uiList = [source |-> << >>, target |-> << >>]
    /\ transform = sp3dTransform(0, DefaultTransformCfg)
    /\ ctx = NoCtx
    /\ error = ""
    /\ win = FALSE
    /\ lastOp = NoOp
    /\ ret = None
    /\ budget = MaxPicks
    /\ stroke = NoStroke

NextPick ==
    \/ Call_getNext
    \/ Call_getRandom

SpecPick == InitPick /\ [][NextPick]_vars

-----------------------------------------------------------------------------
(* spPaint3dWin: the list callbacks and the context buttons *)

SourceErrorMsg == "Source list is empty or object(s) have been deleted. FIX!"
TargetErrorMsg == "Target list is empty or object(s) have been deleted. FIX!"
DuplicateErrorMsg == "Object(s) can't be in both lists, FIX!"

\* the text raised when a context of a kind starts
EngageMsg(kind) ==
    IF kind = "PaintCtx" THEN "Engage!! Maximum Paint..." ELSE "Engage!! Maximum Place..."

\* the sequences of at most n different elements of S
RECURSIVE SeqsUpTo(_, _)
SeqsUpTo(S, n) ==
    IF n = 0 THEN { << >> }
    ELSE LET shorter == SeqsUpTo(S, n - 1)
         IN  shorter \cup { Append(q, x) : q \in {t \in shorter : Len(t) = n - 1},
                                           x \in S }

NoRepeat(q) == \A a, b \in 1..Len(q) : a # b => q[a] # q[b]

\* the nodes the user picks from: a good transform and its shape, a shape whose
\* transform holds two shapes, a transform of another type, one with two children
Selectable == {"pCube1", "pCubeShape1", "pairShapeA", "locator1", "mixed1"}

\* cmds.ls(selection=True): what the user can have selected in the scene
Selections(live) == { q \in SeqsUpTo(Selectable \cap live, MaxSel) : NoRepeat(q) }

\* cmds.textScrollList(list, query=True, selectItem=True): the items the user can
\* have selected in a list, in the order of the list; << >> stands for None
RECURSIVE SubSeqs(_)
SubSeqs(q) ==
    IF q = << >> THEN { << >> }
    ELSE LET rest == SubSeqs(Tail(q))
         IN  rest \cup { << Head(q) >> \o t : t \in rest }

SelectedItems(items) == { q \in SubSeqs(items) : Len(q) <= MaxSel }

\* cmds.textScrollList(list, edit=True, removeItem=item)
RemoveItem(items, item) == SelectSeq(items, LAMBDA x : x # item)

\* the loop of the add mode over the selection from position k on:
\* [list, items, error] as the loop leaves them
RECURSIVE addSelected(_, _, _, _, _, _)
addSelected(list, items, err, objselected, k, live) ==
    IF k > Len(objselected) THEN [list |-> list, items |-> items, error |-> err]
    ELSE LET r == addObj(list, objselected[k], TRUE, 500, "Up", live)
             addresult == r.ret[1]
             addcomment == r.ret[2]
         IN  IF addresult = None
             THEN addSelected(r.list, items, addcomment, objselected, k + 1, live)
             ELSE IF addresult \in live
             THEN addSelected(r.list, Append(items, addresult), err, objselected, k + 1, live)
             ELSE addSelected(r.list, items, err, objselected, k + 1, live)

\* the loop of the rem mode over the selected items from position k on
RECURSIVE remSelected(_, _, _, _)
remSelected(list, items, remlist, k) ==
    IF k > Len(remlist) THEN [list |-> list, items |-> items]
    ELSE remSelected(delObj(list, remlist[k]).list, RemoveItem(items, remlist[k]), remlist, k + 1)

\* what uiListCallback leaves alone
ListCallbackFrame == UNCHANGED <<optionVar, uiValues, nGroups, alive, transform, win>>

\* the end of uiListCallback: self.updateCtx()
ListUpdateCtx == ctx' = updateCtx(ctx, uiValues, transform, sourceList', targetList')

\* spPaint3dWin.uiListCallback("add", textlist)
uiListCallback_add ==
    /\ win /\ budget > 0
    /\ \E l \in ListNames, objselected \in Selections(alive) :
         LET r == addSelected(ListOf(l), uiList[l], error, objselected, 1, alive)
         IN  /\ SetList(l, r.list)
             /\ uiList' = [uiList EXCEPT ![l] = r.items]
             /\ error' = r.error
             /\ lastOp' = Op("uiListCallback", l, << "add" >>)
    /\ ListUpdateCtx
    /\ ret' = None
    /\ budget' = budget - 1
    /\ ListCallbackFrame
    /\ UNCHANGED stroke

\* spPaint3dWin.uiListCallback("clr", textlist)
uiListCallback_clr ==
    /\ win /\ budget > 0
    /\ \E l \in ListNames :
         /\ SetList(l, clrObj(ListOf(l)))
         /\ uiList' = [uiList EXCEPT ![l] = << >>]
         /\ lastOp' = Op("uiListCallback", l, << "clr" >>)
    /\ ListUpdateCtx
    /\ ret' = None
    /\ budget' = budget - 1
    /\ UNCHANGED error
    /\ ListCallbackFrame
    /\ UNCHANGED stroke

\* spPaint3dWin.uiListCallback("rem", textlist)
uiListCallback_rem ==
    /\ win /\ budget > 0
    /\ \E l \in ListNames :
         \E remlist \in SelectedItems(uiList[l]) :
           LET r == remSelected(ListOf(l), uiList[l], remlist, 1)
           IN  /\ SetList(l, r.list)
               /\ uiList' = [uiList EXCEPT ![l] = r.items]
               /\ lastOp' = Op("uiListCallback", l, << "rem" >>)
    /\ ListUpdateCtx
    /\ ret' = None
    /\ budget' = budget - 1
    /\ UNCHANGED error
    /\ ListCallbackFrame
    /\ UNCHANGED stroke

\* self.ctx = context.paintContext / context.placeContext(uiValues, transform, sourceList,
\* targetList): the kind of context and the objects the window hands to it
newContext(kind, o, tr, src, tgt) == [kind |-> kind, transform |-> tr.id]

\* spPaint3dWin.genericContextCallback(kind): the three checks, then one of the
\* three messages or a new context.  ret is what became of the call: the kind of
\* the context created, False after a message, Raise when validateObjects raised.
genericContextCallback ==
    /\ win
    /\ \E kind \in {"PaintCtx", "PlaceCtx"} :
       \E sourcevalid \in validateObjects(sourceList, alive),
          targetvalid \in validateObjects(targetList, alive) :
         LET duplicateerror == hasDuplicate(sourceList, targetList)
         IN  /\ lastOp' = Op("genericContextCallback", "", << kind >>)
             /\ IF sourcevalid = Raise \/ targetvalid = Raise
                THEN ret' = Raise /\ UNCHANGED <<error, ctx>>
                ELSE IF sourcevalid # True
                THEN ret' = False /\ error' = SourceErrorMsg /\ UNCHANGED ctx
                ELSE IF targetvalid # True
                THEN ret' = False /\ error' = TargetErrorMsg /\ UNCHANGED ctx
                ELSE IF duplicateerror
                THEN ret' = False /\ error' = DuplicateErrorMsg /\ UNCHANGED ctx
                ELSE /\ ret' = kind
                     /\ error' = EngageMsg(kind)
                     /\ ctx' = newContext(kind, uiValues, transform, sourceList, targetList)
    /\ UNCHANGED <<optionVar, uiValues, nGroups, alive, sourceList, targetList, uiList,
                   transform, win, budget>>
    /\ stroke' = IF ret' \in {"PaintCtx", "PlaceCtx"} THEN NoStroke ELSE stroke

\* the user deletes a node of the scene while the window is open
WinSceneDelete ==
    /\ win /\ budget > 0
    /\ Cardinality(Nodes \ alive) < MaxDeleted
    /\ \E n \in alive :
         /\ alive' = DeleteNode(n, alive)
         /\ lastOp' = Op("delete", "", << n >>)
    /\ ret' = None
    /\ budget' = budget - 1
    /\ UNCHANGED <<optionVar, uiValues, nGroups, sourceList, targetList, uiList,
                   transform, ctx, error, win>>
    /\ UNCHANGED stroke

-----------------------------------------------------------------------------
(* SpecCtx: the list callbacks and the context buttons of an open window *)

InitCtx ==
    /\ optionVar = DefaultStore
    /\ uiValues = sp3dToolOption_init(DefaultStore).uiValues
    /\ nGroups = 0
    /\ alive = Nodes
    /\ sourceList = NewList("source")
    /\ targetList = NewList("target")
    /\ uiList = [source |-> << >>, target |-> << >>]
    /\ transform = sp3dTransform(0, DefaultTransformCfg)
    /\ ctx = NoCtx
    /\ error = StartText
    /\ win = TRUE
    /\ lastOp = NoOp
    /\ ret = None
    /\ budget = MaxCtxOps
    /\ stroke = NoStroke

NextCtx ==
    \/ uiListCallback_add
    \/ uiListCallback_clr
    \/ uiListCallback_rem
    \/ genericContextCallback
    \/ WinSceneDelete

SpecCtx == InitCtx /\ [][NextCtx]_vars

-----------------------------------------------------------------------------
(* SpecLive: the callbacks of the window while a paint context is running *)

\* the window after locator1 was added to the source list, pCube1 to the
\* target list, and the Paint button was pressed
InitLive ==
    /\ optionVar = DefaultStore
    /\ uiValues = sp3dToolOption_init(DefaultStore).uiValues
    /\ nGroups = 0
    /\ alive = Nodes
    /\ sourceList = addObj(NewList("source"), "locator1", TRUE, 500, "Up", Nodes).list
    /\ targetList = addObj(NewList("target"), "pCube1", TRUE, 500, "Up", Nodes).list
    /\ uiList = [source |-> << "locatorShape1" >>, target |-> << "pCubeShape1" >>]
    /\ transform = sp3dTransform(0, DefaultTransformCfg)
    /\ ctx = newContext("PaintCtx", uiValues, transform, sourceList, targetList)
    /\ error = EngageMsg("PaintCtx")
    /\ win = TRUE
    /\ lastOp = NoOp
    /\ ret = None
    /\ budget = MaxLiveOps
    /\ stroke = NoStroke

NextLive ==
    \/ uiCheckBoxCallback
    \/ uiFluxCallback
    \/ uiPaintOffsetCallback
    \/ uiRampMenuCallback
    \/ uiSetupPlaceRotateCallback
    \/ setupCallback
    \/ resetOptions
    \/ uiTransformCallback
    \/ uiListCallback_add
    \/ uiListCallback_clr
    \/ uiListCallback_rem
    \/ genericContextCallback

SpecLive == InitLive /\ [][NextLive]_vars

-----------------------------------------------------------------------------
(* Claims about sp3dToolOption, checked under SpecOpt *)

\* the value commitVars stores for the attribute of a schema name
AttrAsStored(o, name) ==
    LET info == sp3dOptionVars[name]
    IN  IF info.type = "iv" THEN PyInt(o.attr[info.varname]) ELSE o.attr[info.varname]

\* every schema attribute of the object equals its default in sp3dOptionVars
AttrsAreTableDefaults(o) ==
    \A name \in OptionNameSet : AttrAsStored(o, name) = sp3dOptionVars[name].value

\* every schema name is stored with its default in sp3dOptionVars
StoreIsTableDefaults(store) ==
    \A name \in OptionNameSet :
        name \in DOMAIN store /\ store[name] = sp3dOptionVars[name].value

\* C1: an sp3dToolOption constructed against a store that fails checkVars ends
\* with every option, in memory and in the store, at its sp3dOptionVars default.
C1_InvalidStoreEndsAtTableDefaults ==
    (lastOp.op = "__init__" /\ lastOp.arg = << False >>)
        => (AttrsAreTableDefaults(uiValues) /\ StoreIsTableDefaults(optionVar))

\* C2: checkVars is True exactly when every schema name is stored and the stored
\* sp3dVersion is the running version, whatever the other values are; this is
\* what a call returns.
C2_CheckVarsIffCompleteAndCurrent ==
    /\ checkVars(optionVar) <=>
          /\ OptionNameSet \subseteq DOMAIN optionVar
          /\ optionVar["sp3dVersion"] = spPaint3dVersion
    /\ lastOp.op = "checkVars" => (ret <=> checkVars(optionVar))

\* a call of checkVars returned False on a store that holds non-default values,
\* the running version and every name but one
C2_Witness ==
    /\ lastOp.op = "checkVars"
    /\ ret = FALSE
    /\ Cardinality(OptionNameSet \ DOMAIN optionVar) = 1
    /\ "sp3dVersion" \in DOMAIN optionVar
    /\ optionVar["sp3dVersion"] = spPaint3dVersion
    /\ "sp3dPaintTimer" \in DOMAIN optionVar
    /\ optionVar["sp3dPaintTimer"] # sp3dOptionVars["sp3dPaintTimer"].value

\* C3: after resetVars, from any store and any attribute values, the store
\* passes checkVars and every schema attribute is at its sp3dOptionVars default.
C3_ResetVarsRestoresDefaults ==
    lastOp.op = "resetVars" =>
        (checkVars(optionVar) /\ AttrsAreTableDefaults(uiValues) /\ StoreIsTableDefaults(optionVar))

\* resetVars has run on an invalid store
C3_Witness ==
    /\ lastOp.op = "resetVars"
    /\ lastOp.arg = << False >>
    /\ HasObject(uiValues)

\* C5: commitVars stores every schema attribute, changed or not, leaves the
\* attributes alone, and a second commitVars changes nothing more.
C5_CommitVarsWritesAllIdempotent ==
    [][lastOp'.op = "commitVars" =>
          /\ \A name \in OptionNameSet :
                name \in DOMAIN optionVar' /\ optionVar'[name] = AttrAsStored(uiValues, name)
          /\ uiValues' = uiValues
          /\ commitVars(uiValues', optionVar') = optionVar']_vars

\* commitVars has run on a store that lacked a name or carried the old version,
\* with edited attributes
C5_Witness ==
    /\ lastOp.op = "commitVars"
    /\ lastOp.arg = << False >>
    /\ uiValues.attr = EditedAttrs

-----------------------------------------------------------------------------
(* Claims about the option callbacks of the window, checked under Spec *)

\* every schema name is stored with the value of its attribute
WriteThrough ==
    \A name \in OptionNameSet :
        name \in DOMAIN optionVar /\ optionVar[name] = AttrAsStored(uiValues, name)

\* the stored form of what loadVars makes of a stored value
LoadedAsStored(name, v) ==
    IF sp3dOptionVars[name].type = "iv" THEN PyInt(PyBool(v)) ELSE PyRound2(v)

OptionEditOps ==
    { "uiCheckBoxCallback", "uiFluxCallback", "uiPaintOffsetCallback", "uiRampMenuCallback",
      "uiSetupPlaceRotateCallback", "setupCallback", "resetOptions" }

\* C4 as claimed: once the window is constructed, every schema name is stored
\* with the value of its attribute, whatever edits and resets follow.
C4_WriteThroughAlways == win => WriteThrough

\* C4 as amended: after an option edit, a reset or a construction against an
\* invalid store every schema name is stored with the value of its attribute;
\* after a construction against a valid store the attribute is the stored value
\* as loadVars converts it.
C4_WriteThroughAfterEdit ==
    win =>
      /\ \A name \in OptionNameSet :
            /\ name \in DOMAIN optionVar
            /\ AttrAsStored(uiValues, name) \in
                  { optionVar[name], LoadedAsStored(name, optionVar[name]) }
      /\ (lastOp.op \in OptionEditOps \/ (lastOp.op = "spPaint3dWin" /\ lastOp.arg = << False >>))
            => WriteThrough
      /\ (lastOp.op = "spPaint3dWin" /\ lastOp.arg = << True >>)
            => \A name \in OptionNameSet :
                  AttrAsStored(uiValues, name) = LoadedAsStored(name, optionVar[name])

\* an edit of the timer slider has stored a value with a third decimal
C4_Witness ==
    /\ win
    /\ lastOp.op = "uiFluxCallback"
    /\ optionVar["sp3dPaintTimer"] = 73
    /\ uiValues.attr["paintTimer"] = 73

-----------------------------------------------------------------------------
(* Claims about sp3dObjectList.addObj, checked under SpecList *)

\* the list an addObj step is called on, before and after the step
AddedTo == ListOf(lastOp'.list)
AddedToAfter == IF lastOp'.list = "source" THEN sourceList' ELSE targetList'

\* the candidate of an addObj step
Candidate == lastOp'.arg[1]

\* the child shapes of a node whose type the list authorizes
QualifyingChildren(list, node) ==
    { c \in Nodes : InSeq(c, listRelativesShapes(node, alive)) /\ InSeq(NodeType[c], list.auth) }

AddReasons == { AlreadyExistsMsg, NoChildMsg, TooComplexMsg, NoCategoryMsg }

\* C7: a candidate of an authorized type becomes the key itself; a transform
\* with exactly one qualifying child among its child shapes is accepted with
\* that child as the key, whatever other children it has; the returned key is
\* the key the entry is stored under.
C7_AddObjResolution ==
    [][lastOp'.op = "addObj" =>
          /\ (InSeq(NodeType[Candidate], AddedTo.auth) /\ ~Candidate \in Keys(AddedTo))
                => (ret' = << Candidate, True >> /\ Candidate \in Keys(AddedToAfter))
          /\ (/\ NodeType[Candidate] = "transform"
              /\ Cardinality(QualifyingChildren(AddedTo, Candidate)) = 1
              /\ QualifyingChildren(AddedTo, Candidate) \cap Keys(AddedTo) = {})
                => \E c \in QualifyingChildren(AddedTo, Candidate) :
                      ret' = << c, True >> /\ c \in Keys(AddedToAfter)
          /\ ret'[2] = True => ret'[1] \in Keys(AddedToAfter)]_vars

\* C8: a transform without a qualifying child (no child shape, or only child
\* shapes of a type that is not authorized) is rejected with the 'no matching
\* child' reason, a transform with more than one child shape with the 'hierarchy
\* too complex' reason; neither time is the list changed.
C8_AddObjRejectionReasons ==
    [][(lastOp'.op = "addObj" /\ NodeType[Candidate] = "transform") =>
          LET none == QualifyingChildren(AddedTo, Candidate) = {}
              many == Len(listRelativesShapes(Candidate, alive)) > 1
          IN  /\ (none /\ ~many) => ret' = << None, NoChildMsg >>
              /\ (many /\ ~none) => ret' = << None, TooComplexMsg >>
              /\ (none /\ many) => ret' \in { << None, NoChildMsg >>, << None, TooComplexMsg >> }
              /\ (none \/ many) => AddedToAfter = AddedTo]_vars

\* the child addObj resolves a transform to: its only child shape, when the list
\* authorizes the type of that shape
ResolvedChildren(list, node) ==
    IF NodeType[node] = "transform" /\ Len(listRelativesShapes(node, alive)) = 1
    THEN QualifyingChildren(list, node)
    ELSE {}

\* C9: addObj of a key of the list, or of a transform whose resolved child is a
\* key, is rejected as 'already exists' and changes nothing; no addObj changes
\* the entry of a key the list already holds; every key is a shape of an
\* authorized type, stored once whatever it was selected through.
C9_KeysUnique ==
    [][lastOp'.op = "addObj" =>
          /\ (Candidate \in Keys(AddedTo)
                \/ ResolvedChildren(AddedTo, Candidate) \cap Keys(AddedTo) # {})
                => (ret' = << None, AlreadyExistsMsg >> /\ AddedToAfter = AddedTo)
          /\ \A k \in Keys(AddedTo) :
                k \in Keys(AddedToAfter) /\ AddedToAfter.obj[k] = AddedTo.obj[k]
          /\ \A k \in Keys(AddedToAfter) : InSeq(NodeType[k], AddedToAfter.auth)]_vars

\* a transform was added whose only child is already a key, stored disabled
C9_Witness ==
    /\ lastOp.op = "addObj"
    /\ lastOp.list = "source"
    /\ lastOp.arg = << "pCube1" >>
    /\ ret = << None, AlreadyExistsMsg >>
    /\ "pCubeShape1" \in Keys(sourceList)
    /\ sourceList.obj["pCubeShape1"][2] = FALSE

-----------------------------------------------------------------------------
(* Claims about spPaint3dWin.genericContextCallback, checked under SpecCtx *)

\* a list that is not empty and whose every stored path is a node of the scene
RegistryLive(list) ==
    /\ Keys(list) # {}
    /\ \A k \in Keys(list) : objExists(list.obj[k][1], alive)

\* what genericContextCallback asks for before it creates a context
ContextPreconditions ==
    /\ RegistryLive(sourceList)
    /\ RegistryLive(targetList)
    /\ Keys(sourceList) \cap Keys(targetList) = {}

ValidationMsgs == { SourceErrorMsg, TargetErrorMsg, DuplicateErrorMsg }

\* C6: genericContextCallback creates a paint or place context only when the
\* source list is not empty with every stored path live, the target list
\* likewise, and the lists share no key; when one of these fails a status
\* message is raised, no context is created, and the stored context, the two
\* lists and the options stay as they were.
C6_ContextOnlyWhenListsValid ==
    [][lastOp'.op = "genericContextCallback" =>
          /\ ret' \in {"PaintCtx", "PlaceCtx"} => ContextPreconditions
          /\ ~ContextPreconditions =>
                /\ ret' = False
                /\ error' \in ValidationMsgs
                /\ ctx' = ctx
                /\ sourceList' = sourceList /\ targetList' = targetList
                /\ uiValues' = uiValues /\ optionVar' = optionVar]_vars

\* the part of C6 that does not ask for the message: a context is created only
\* when the three conditions hold, and otherwise the stored context, the lists
\* and the options stay as they were
C6_NoContextUnlessListsValid ==
    [][lastOp'.op = "genericContextCallback" =>
          /\ ret' \in {"PaintCtx", "PlaceCtx"} => ContextPreconditions
          /\ ret' \in {"PaintCtx", "PlaceCtx"} => (ctx'.kind = ret' /\ error' = EngageMsg(ret'))
          /\ ~ContextPreconditions =>
                /\ ret' \in {False, Raise}
                /\ ret' = False => error' \in ValidationMsgs
                /\ ret' = Raise => error' = error
                /\ ctx' = ctx
                /\ sourceList' = sourceList /\ targetList' = targetList
                /\ uiValues' = uiValues /\ optionVar' = optionVar]_vars

\* a context button was pressed while a context was stored and a list held a
\* deleted object: the message is raised and the stored context stays
C6_RejectedWithStoredContext ==
    /\ lastOp.op = "genericContextCallback"
    /\ ret = False
    /\ error = TargetErrorMsg
    /\ ctx.kind = "PaintCtx"
    /\ ~RegistryLive(targetList)

\* a context button was pressed while the source list held a shape stored
\* without a path: nothing came back
C6_RaisedOnEntryWithoutPath ==
    /\ lastOp.op = "genericContextCallback"
    /\ ret = Raise
    /\ \E k \in Keys(sourceList) : sourceList.obj[k][1] = << >>

-----------------------------------------------------------------------------
(* Claims about the other methods of sp3dObjectList, checked under SpecList *)

\* C11: after an addObj that returned a key, delObj of that key gives back the
\* list as it was before the addObj: the same keys with the same entries and
\* the same index; delObj itself returns without an error.
C11_AddThenDelRestores ==
    [][(lastOp'.op = "addObj" /\ ret'[2] = True) =>
          /\ delObj(AddedToAfter, ret'[1]).ret = None
          /\ delObj(AddedToAfter, ret'[1]).list = AddedTo]_vars

\* an addObj returned a key on a list that held another key and whose index
\* had advanced
C11_Witness ==
    /\ lastOp.op = "addObj"
    /\ lastOp.list = "source"
    /\ ret[2] = True
    /\ Cardinality(Keys(sourceList)) = 2
    /\ sourceList.i > 0

\* the smallest key of a list, as dkeys.sort() puts it first
SmallestKey(list) == SortKeys(Keys(list))[1]

\* C12: clrObj leaves a list without entries and with index 0, whatever it held;
\* addObj leaves the index alone, so that the getNext that finds the index at 0
\* on a list with keys returns the path of the smallest key and moves the index
\* to 1.
C12_ClrObjResetsIndex ==
    [][/\ lastOp'.op = "clrObj" => AddedToAfter = NewList(lastOp'.list)
       /\ (lastOp'.op = "addObj" /\ AddedTo = NewList(lastOp'.list)) => AddedToAfter.i = 0
       /\ (lastOp'.op = "getNext" /\ sourceList.i = 0 /\ Keys(sourceList) # {}) =>
             /\ ret' = sourceList.obj[SmallestKey(sourceList)][1]
             /\ sourceList'.i = 1]_vars

\* clrObj has run on a list that held a key and whose index had advanced
C12_Witness ==
    /\ lastOp.op = "clrObj"
    /\ lastOp.list = "source"
    /\ lastOp.arg[1] > 0
    /\ lastOp.arg[2] > 0
    /\ sourceList = NewList("source")

\* what validateObjects is to return: True on a list with keys whose stored
\* paths all exist, False on any other list
ExpectedValid(list) == IF RegistryLive(list) THEN True ELSE False

\* C13: validateObjects returns False on an empty list and on a list with an
\* entry whose stored path does not exist in the scene, True otherwise; it
\* changes neither list; deleting a node changes neither list either (the
\* entries of deleted nodes stay until validateObjects is asked).
C13_ValidateObjectsOnDemand ==
    [][/\ lastOp'.op = "validateObjects" =>
             /\ ret' = ExpectedValid(ListOf(lastOp'.list))
             /\ sourceList' = sourceList /\ targetList' = targetList
       /\ lastOp'.op = "delete" => (sourceList' = sourceList /\ targetList' = targetList)]_vars

\* a list none of whose entries was stored without a path
AllPathsStored(list) == \A k \in Keys(list) : list.obj[k][1] # << >>

\* C13 for the lists whose entries were all stored with a path
C13_ValidateObjectsWithPaths ==
    [][/\ (lastOp'.op = "validateObjects" /\ AllPathsStored(ListOf(lastOp'.list))) =>
             /\ ret' = ExpectedValid(ListOf(lastOp'.list))
             /\ sourceList' = sourceList /\ targetList' = targetList
       /\ lastOp'.op = "delete" => (sourceList' = sourceList /\ targetList' = targetList)]_vars

\* validateObjects returned False on a list that still holds the key of a
\* deleted node
C13_DeletedStillListed ==
    /\ lastOp.op = "validateObjects"
    /\ ret = False
    /\ \E k \in Keys(ListOf(lastOp.list)) : k \notin alive

\* C14: A.hasDuplicate(B) is True exactly when A and B share a key, so that it
\* is the same both ways round, empty lists included; a call returns this and
\* changes neither list.
C14_HasDuplicateSymmetric ==
    [][/\ hasDuplicate(sourceList, targetList) <=> (Keys(sourceList) \cap Keys(targetList) # {})
       /\ hasDuplicate(sourceList, targetList) <=> hasDuplicate(targetList, sourceList)
       /\ hasDuplicate(sourceList, NewList("target")) = FALSE
       /\ hasDuplicate(NewList("source"), targetList) = FALSE
       /\ lastOp'.op = "hasDuplicate" =>
             /\ ret' <=> (Keys(sourceList) \cap Keys(targetList) # {})
             /\ sourceList' = sourceList /\ targetList' = targetList]_vars

\* hasDuplicate returned True on two lists that share one key and differ in another
C14_Witness ==
    /\ lastOp.op = "hasDuplicate"
    /\ ret = TRUE
    /\ Keys(sourceList) \cap Keys(targetList) # {}
    /\ Keys(sourceList) # Keys(targetList)

-----------------------------------------------------------------------------
(* Claims about getNext and getRandom, checked under SpecPick *)

\* what n getNext calls in a row return, the list not being touched in between
RECURSIVE NextRun(_, _)
NextRun(list, n) ==
    IF n = 0 THEN << >>
    ELSE << getNext(list).ret >> \o NextRun(getNext(list).list, n - 1)

\* the key whose turn it is at the k-th call from index i on a list of keys S
KeyInTurn(S, i, k) == SortKeys(S)[((i + k - 1) % Cardinality(S)) + 1]

\* C15: on a list of N >= 1 keys that is not changed in between, N getNext
\* calls in a row return the path of every key once, in the ascending order of
\* the sorted keys taken round from the key of the index (the smallest key at
\* index 0), and call N+1 returns what call 1 returned.
C15_GetNextRoundRobin ==
    [][LET N == Cardinality(Keys(sourceList))
           run == NextRun(sourceList, N + 1)
       IN  N >= 1 =>
             /\ \A k \in 1..N :
                   run[k] = sourceList.obj[KeyInTurn(Keys(sourceList), sourceList.i, k)][1]
             /\ { KeyInTurn(Keys(sourceList), sourceList.i, k) : k \in 1..N } = Keys(sourceList)
             /\ sourceList.i = 0 => run[1] = sourceList.obj[SmallestKey(sourceList)][1]
             /\ run[N + 1] = run[1]
             /\ lastOp'.op = "getNext" =>
                   /\ ret' = run[1]
                   /\ sourceList' = [sourceList EXCEPT !.i = sourceList.i + 1]]_vars

\* four getNext calls on a list of three keys: the fourth returned the path of
\* the smallest key again
C15_Witness ==
    /\ lastOp.op = "getNext"
    /\ Cardinality(Keys(sourceList)) = 3
    /\ sourceList.i = 4
    /\ ret = sourceList.obj[SmallestKey(sourceList)][1]
    /\ ret # << >>

\* the stored paths of the entries of a list that are enabled
EnabledPaths(list) == { list.obj[k][1] : k \in {x \in Keys(list) : list.obj[x][2]} }

\* the stored paths of the entries that are enabled and of a weight above 0
WeightedPaths(list) ==
    { list.obj[k][1] : k \in {x \in Keys(list) : list.obj[x][2] /\ list.obj[x][3] > 0} }

\* C16: getRandom(weighted=False) returns the path of an enabled entry whenever
\* the list holds one: an entry added with activation=False is not returned.
C16_GetRandomOnlyEnabled ==
    (lastOp.op = "getRandom" /\ lastOp.arg = << False >> /\ EnabledPaths(sourceList) # {})
        => ret \in EnabledPaths(sourceList)

\* C17: getRandom(weighted=True) draws among the enabled entries by their
\* weights: an entry of weight 0 is not returned while an enabled entry of a
\* weight above 0 exists.
C17_GetRandomWeighted ==
    (lastOp.op = "getRandom" /\ lastOp.arg = << True >> /\ WeightedPaths(sourceList) # {})
        => ret \in WeightedPaths(sourceList)

\* what the code does with the flag: the paths getRandom can return are those
\* of all the keys, whatever weighted is, whatever the flags and the weights
GetRandomIgnoresFlagAndWeights ==
    /\ getRandom(sourceList, TRUE) = getRandom(sourceList, FALSE)
    /\ Keys(sourceList) # {} =>
          getRandom(sourceList, TRUE) = { sourceList.obj[k][1] : k \in Keys(sourceList) }

C17_ZeroWeightReturned ==
    /\ lastOp.op = "getRandom"
    /\ lastOp.arg = << True >>
    /\ \A k \in Keys(sourceList) : sourceList.obj[k][2]
    /\ \E k \in Keys(sourceList) : sourceList.obj[k][3] = 0 /\ ret = sourceList.obj[k][1]
    /\ \E k \in Keys(sourceList) : sourceList.obj[k][3] = 500 /\ ret # sourceList.obj[k][1]

-----------------------------------------------------------------------------
(* Claims about sp3dTransform.getRandomScale, checked under SpecTransform *)

\* the same transform with other y and z scale ranges
WithYZ(cfg, sy, sz) == [cfg EXCEPT !.scale = << cfg.scale[1], sy, sz >>]

\* C19: getRandomScale(uniform=True) returns three equal components for every
\* scale configuration: one value drawn from the x range, whatever the y and z
\* ranges are.
C19_UniformScaleEqualComponents ==
    /\ (lastOp.op = "getRandomScale" /\ lastOp.arg = << True >>) =>
          /\ ret[1] = ret[2] /\ ret[2] = ret[3]
          /\ ret[1] \in RoundedDraws(transform.cfg.scale[1])
    /\ \A sy, sz \in ScaleRanges :
          getRandomScale(WithYZ(transform.cfg, sy, sz), TRUE) = getRandomScale(transform.cfg, TRUE)

\* a uniform draw on a transform whose x range is a true range and whose y and
\* z ranges are single values away from it
C19_Witness ==
    /\ lastOp.op = "getRandomScale"
    /\ lastOp.arg = << True >>
    /\ transform.cfg.scale = << <<500, 2000>>, <<2000, 2000>>, <<3000, 1000>> >>
    /\ ret = << 1250, 1250, 1250 >>

\* every scale range of a transform holds one value: min = max
DegenerateScale(cfg) == \A a \in 1..3 : cfg.scale[a][1] = cfg.scale[a][2]

-----------------------------------------------------------------------------
(* Claims about the three draws of sp3dTransform, checked under SpecTransform *)

\* v lies in the closed interval from range[0] to range[1], read as (min, max)
InMinMax(v, range) == range[1] <= v /\ v <= range[2]

\* v lies between the two bounds of a range, whichever is the larger
Between(v, range) ==
    \/ range[1] <= v /\ v <= range[2]
    \/ range[2] <= v /\ v <= range[1]

\* the ranges the components of the draw of a step are taken from
RangesOf(op, arg, cfg) ==
    IF op = "getRandomRotate" THEN cfg.rotate
    ELSE IF op = "getRandomScale" THEN cfg.scale
    ELSE IF arg = << "uJitter" >> THEN << cfg.uJitter >> ELSE << cfg.vJitter >>

DrawOps == { "getRandomRotate", "getRandomScale", "getRandomJitter" }

\* what the default transform returns: rotation (0, 0, 0), scale (1, 1, 1), jitter 0
DefaultDraw(op) ==
    IF op = "getRandomRotate" THEN << 0, 0, 0 >>
    ELSE IF op = "getRandomScale" THEN << 1000, 1000, 1000 >>
    ELSE << 0 >>

-----------------------------------------------------------------------------
(* Claims about the running context, checked under SpecLive and SpecCtx *)

\* the callbacks that change the options, the transform or a list
UiChangeOps == OptionEditOps \cup { "uiTransformCallback", "uiListCallback" }

\* C22: while a context exists, every callback that changes the options, the
\* transform or a list ends with the context updated with the window's
\* options, transform and lists: the context holds the transform the window
\* holds.
C22_ContextUpdatedOnEveryChange ==
    [][(ctx.kind # None /\ lastOp'.op \in UiChangeOps) =>
          /\ ctx' = runtimeUpdate(ctx, uiValues', transform', sourceList', targetList')
          /\ ctx'.transform = transform'.id]_vars

\* C22 without the reset: every other callback leaves the context with the
\* transform of the window
C22_ContextUpdatedExceptReset ==
    [][(ctx.kind # None /\ lastOp'.op \in UiChangeOps \ {"resetOptions"}
          /\ ctx.transform = transform.id) =>
          /\ ctx' = runtimeUpdate(ctx, uiValues', transform', sourceList', targetList')
          /\ ctx'.transform = transform'.id]_vars

\* the fields of the transform were edited while the context ran, and the
\* context holds the new transform
C22_TransformPushed ==
    /\ lastOp.op = "uiTransformCallback"
    /\ ctx.kind = "PaintCtx"
    /\ transform.id # 0
    /\ ctx.transform = transform.id

\* the options were reset while the context ran, and the context holds the
\* transform the reset has replaced
C22_StaleTransformAfterReset ==
    /\ lastOp.op = "resetOptions"
    /\ ctx.kind = "PaintCtx"
    /\ ctx.transform # transform.id

-----------------------------------------------------------------------------
(* Claims about sp3dToolOption.getGroupID, checked under SpecOpt *)

\* C23: on one options object, whatever loadVars, resetVars and commitVars
\* calls come in between, the output group is created by the first getGroupID
\* only, and every getGroupID returns that group.
C23_GroupCreatedOnce ==
    [][(HasObject(uiValues) /\ lastOp'.op # "__init__") =>
          /\ uiValues.groupID # 0 =>
                /\ uiValues'.groupID = uiValues.groupID
                /\ nGroups' = nGroups
                /\ lastOp'.op = "getGroupID" => ret' = uiValues.groupID
          /\ uiValues.groupID = 0 =>
                IF lastOp'.op = "getGroupID"
                THEN /\ nGroups' = nGroups + 1
                     /\ uiValues'.groupID # 0
                     /\ ret' = uiValues'.groupID
                ELSE /\ nGroups' = nGroups
                     /\ uiValues'.groupID = 0]_vars

\* a getGroupID call found the group created, after the attributes were
\* reset to the defaults, and returned it
C23_Witness ==
    /\ lastOp.op = "getGroupID"
    /\ lastOp.arg = << "reused" >>
    /\ ret = uiValues.groupID
    /\ nGroups = 1
    /\ AttrsAreTableDefaults(uiValues)

\* ===========================================================================
\* The stroke engine of the paint context (sppaint3d.context, imported at
\* gui.py:21 and instantiated at gui.py:954-961).  The module is not part of
\* the sources at hand; the engine below follows section 4.3 of the
\* specification: Idle -> Active on press, one step per drag event, Active ->
\* Idle on release.
\* ===========================================================================

\* how many stroke steps (press, drag event, release, deletion) a behaviour runs
MaxStrokeOps == 5

\* hit positions along the x axis (y = z = 0), in thousandths of a unit
StrokePositions == {0, 2000, 6000, 11000}

\* the flux threshold the strokes are painted with: 5 units
StrokeThreshold == 5000

\* the status message of an event whose picked source is gone
DeletedSourceMsg == "source object no longer exists"

Abs(x) == IF x < 0 THEN 0 - x ELSE x

\* Euclidean distance of two positions on the x axis
Distance(a, b) == Abs(a - b)

\* the flux gate, with the first event of a stroke rejected like any other
\* event below the threshold of position 0
FluxGate_FirstGated(o, st, pos, late) ==
    IF o.attr["paintFlux"]
    THEN Distance(pos, IF st.last = << >> THEN 0 ELSE st.last[1]) >= o.attr["paintDistance"]
    ELSE late

\* the flux gate: in distance mode the first event of a stroke passes and a
\* later one passes unless it is nearer to the last committed position than
\* the threshold; in time mode an event passes unless the interval has not
\* elapsed
FluxGate(o, st, pos, late) ==
    IF o.attr["paintFlux"]
    THEN st.last = << >> \/ Distance(pos, st.last[1]) >= o.attr["paintDistance"]
    ELSE late

\* the picks of one event: pickRandom or pickNext on the shared source list,
\* each with the list it leaves
SourcePicks(o, src) ==
    IF o.attr["random"]
    THEN {[list |-> src, ret |-> r] : r \in getRandom(src, FALSE)}
    ELSE {getNext(src)}

\* an event whose picked source is gone ends the whole stroke
strokeAbort_EndsStroke(st) == [st EXCEPT !.state = "Idle"]

\* an event whose picked source is gone commits nothing and leaves the stroke
\* as it is
strokeAbort(st) == st

\* an event that hit a target is on record, whatever becomes of it
strokeHit(st, pos) == [st EXCEPT !.hits = Append(@, pos)]

\* a commit: the object is created at the position and the position becomes
\* the last committed one
strokeCommit(st, pos, ref) ==
    [st EXCEPT !.last = << pos >>, !.commits = Append(@, << pos, ref >>)]

StrokeFrame == UNCHANGED <<optionVar, uiValues, nGroups, targetList, uiList, transform, ctx, win>>

\* press: a stroke begins, with no committed position yet
strokePress ==
    /\ win /\ budget > 0
    /\ ctx.kind = "PaintCtx"
    /\ stroke.state = "Idle"
    /\ stroke' = [NoStroke EXCEPT !.state = "Active"]
    /\ lastOp' = Op("strokePress", "", << >>)
    /\ ret' = None
    /\ budget' = budget - 1
    /\ UNCHANGED <<alive, sourceList, error>>
    /\ StrokeFrame

\* one drag event of an active stroke
strokeEvent ==
    /\ win /\ budget > 0
    /\ ctx.kind = "PaintCtx"
    /\ stroke.state = "Active"
    /\ \E pos \in StrokePositions, hit \in BOOLEAN, late \in BOOLEAN :
         IF ~hit
         THEN /\ lastOp' = Op("strokeEvent", "", << pos, "miss" >>)
              /\ UNCHANGED <<stroke, sourceList, error>>
         ELSE IF ~FluxGate(uiValues, stroke, pos, late)
         THEN /\ stroke' = strokeHit(stroke, pos)
              /\ lastOp' = Op("strokeEvent", "", << pos, "gated" >>)
              /\ UNCHANGED <<sourceList, error>>
         ELSE \E p \in SourcePicks(uiValues, sourceList) :
                /\ sourceList' = p.list
                /\ IF ~objExists(p.ret, alive)
                   THEN /\ stroke' = strokeAbort(strokeHit(stroke, pos))
                        /\ error' = DeletedSourceMsg
                        /\ lastOp' = Op("strokeEvent", "", << pos, "aborted" >>)
                   ELSE /\ stroke' = strokeCommit(strokeHit(stroke, pos), pos, p.ret)
                        /\ lastOp' = Op("strokeEvent", "", << pos, "committed" >>)
                        /\ UNCHANGED error
    /\ ret' = None
    /\ budget' = budget - 1
    /\ UNCHANGED alive
    /\ StrokeFrame

\* release: the stroke ends
strokeRelease ==
    /\ win /\ budget > 0
    /\ ctx.kind = "PaintCtx"
    /\ stroke.state = "Active"
    /\ stroke' = [stroke EXCEPT !.state = "Idle"]
    /\ lastOp' = Op("strokeRelease", "", << >>)
    /\ ret' = None
    /\ budget' = budget - 1
    /\ UNCHANGED <<alive, sourceList, error>>
    /\ StrokeFrame

\* the source lists the strokes are painted from: one source, or two
StrokeSources ==
    LET one == addObj(NewList("source"), "locator1", TRUE, 500, "Up", Nodes).list
    IN  {one, addObj(one, "pCube1", TRUE, 500, "Up", Nodes).list}

\* the painting window with a running paint context in distance or time mode,
\* threshold 5, sources picked in sequence or at random
InitStroke ==
    /\ optionVar = DefaultStore
    /\ \E flux \in BOOLEAN, random \in BOOLEAN :
         uiValues = [sp3dToolOption_init(DefaultStore).uiValues EXCEPT
                       !.attr["paintFlux"] = flux,
                       !.attr["paintDistance"] = StrokeThreshold,
                       !.attr["random"] = random]
    /\ nGroups = 0
    /\ alive = Nodes
    /\ sourceList \in StrokeSources
    /\ targetList = addObj(NewList("target"), "pCube1", TRUE, 500, "Up", Nodes).list
    /\ uiList = [source |-> SortKeys(Keys(sourceList)), target |-> << "pCubeShape1" >>]
    /\ transform = sp3dTransform(0, DefaultTransformCfg)
    /\ ctx = newContext("PaintCtx", uiValues, transform, sourceList, targetList)
    /\ error = EngageMsg("PaintCtx")
    /\ win = TRUE
    /\ lastOp = NoOp
    /\ ret = None
    /\ budget = MaxStrokeOps
    /\ stroke = NoStroke

NextStroke ==
    \/ strokePress
    \/ strokeEvent
    \/ strokeRelease
    \/ WinSceneDelete

SpecStroke == InitStroke /\ [][NextStroke]_vars

\* ---------------------------------------------------------------------------
\* C24  distance flux
\* ---------------------------------------------------------------------------

\* every stored source path names nodes that are all in the scene
SourcesLive ==
    \A k \in Keys(sourceList) :
        LET path == sourceList.obj[k][1]
        IN  path # << >> /\ \A j \in 1..Len(path) : path[j] \in alive

\* the positions the stroke committed at, in order
CommittedAt(st) == [k \in 1..Len(st.commits) |-> st.commits[k][1]]

\* an event step of a stroke in distance mode that hit a target
DistanceHitStep ==
    /\ lastOp'.op = "strokeEvent"
    /\ lastOp'.arg[2] # "miss"
    /\ uiValues.attr["paintFlux"]

\* C24: in distance mode with threshold T, while the sources exist, the first
\* event of a stroke that hits a target commits, a later one commits exactly
\* when it is not nearer than T to the last committed position, and the last
\* committed position changes only on a commit, to the position committed; the
\* hits at x = 0, 2, 6, 11 with T = 5 commit three objects, at 0, 6 and 11
C24_DistanceFlux ==
    [][ /\ (DistanceHitStep /\ SourcesLive)
           => /\ (Len(stroke'.commits) = Len(stroke.commits) + 1)
                 <=> (\/ stroke.last = << >>
                      \/ Distance(lastOp'.arg[1], stroke.last[1]) >= uiValues.attr["paintDistance"])
              /\ Len(stroke'.commits) \in {Len(stroke.commits), Len(stroke.commits) + 1}
        /\ (lastOp'.op = "strokeEvent" /\ stroke'.last # stroke.last)
           => /\ Len(stroke'.commits) = Len(stroke.commits) + 1
              /\ stroke'.last = << lastOp'.arg[1] >>
        /\ (DistanceHitStep /\ SourcesLive /\ stroke'.hits = << 0, 2000, 6000, 11000 >>
              /\ uiValues.attr["paintDistance"] = 5000)
           => /\ CommittedAt(stroke') = << 0, 6000, 11000 >>
              /\ stroke'.last = << 11000 >>
      ]_vars

\* a stroke in distance mode with threshold 5 whose events hit at 0, 2, 6 and
\* 11 and which committed at 0, 6 and 11
C24_Witness ==
    /\ uiValues.attr["paintFlux"]
    /\ uiValues.attr["paintDistance"] = 5000
    /\ stroke.state = "Active"
    /\ stroke.hits = << 0, 2000, 6000, 11000 >>
    /\ CommittedAt(stroke) = << 0, 6000, 11000 >>
    /\ stroke.last = << 11000 >>

\* ---------------------------------------------------------------------------
\* C25  a source deleted in the middle of a stroke
\* ---------------------------------------------------------------------------

\* all nodes of a stored reference are in the scene
RefLive(path) == path # << >> /\ \A j \in 1..Len(path) : path[j] \in alive

\* the reference whose turn it is in the sorted key order
RefInTurn == sourceList.obj[KeyInTurn(Keys(sourceList), sourceList.i, 1)][1]

\* C25: an event of an active stroke that finds its picked source deleted
\* creates nothing, reports the status message and leaves the stroke Active
\* with its earlier commits and its last committed position; an event that
\* picked a source still in the scene commits it; in sequence mode the pick is
\* the reference in turn and the turn moves on either way
C25_AbortOnlyThatEvent ==
    [][ /\ (lastOp'.op = "strokeEvent" /\ lastOp'.arg[2] = "aborted")
           => /\ stroke'.commits = stroke.commits
              /\ stroke'.last = stroke.last
              /\ stroke'.state = "Active"
              /\ error' = DeletedSourceMsg
              /\ \E k \in Keys(sourceList) : ~RefLive(sourceList.obj[k][1])
        /\ (lastOp'.op = "strokeEvent" /\ lastOp'.arg[2] = "committed")
           => /\ stroke'.commits = Append(stroke.commits, stroke'.commits[Len(stroke'.commits)])
              /\ stroke'.commits[Len(stroke'.commits)][1] = lastOp'.arg[1]
              /\ RefLive(stroke'.commits[Len(stroke'.commits)][2])
              /\ \E k \in Keys(sourceList) : sourceList.obj[k][1] = stroke'.commits[Len(stroke'.commits)][2]
              /\ stroke'.state = "Active"
              /\ error' = error
        /\ (lastOp'.op = "strokeEvent" /\ lastOp'.arg[2] \in {"aborted", "committed"}
              /\ ~uiValues.attr["random"])
           => /\ (lastOp'.arg[2] = "committed") <=> RefLive(RefInTurn)
              /\ lastOp'.arg[2] = "committed" => stroke'.commits[Len(stroke'.commits)][2] = RefInTurn
              /\ sourceList'.i = sourceList.i + 1
      ]_vars

\* a stroke that committed, then lost an event to a deleted source, then
\* committed again from the source that is left, and is still Active
C25_Witness ==
    /\ stroke.state = "Active"
    /\ Cardinality(Nodes \ alive) > 0
    /\ error = DeletedSourceMsg
    /\ Len(stroke.hits) = 3
    /\ Len(stroke.commits) = 2
    /\ stroke.commits[1][1] = stroke.hits[1]
    /\ stroke.commits[2][1] = stroke.hits[3]
    /\ RefLive(stroke.commits[2][2])
    /\ lastOp.op = "strokeEvent" /\ lastOp.arg[2] = "committed"

\* ---------------------------------------------------------------------------
\* C26  the stored round-robin index
\* ---------------------------------------------------------------------------

\* C26 as claimed: after a getNext on a list with N >= 1 keys the stored index
\* is at least 0 and less than N
C26_IndexWrapped ==
    (lastOp.op = "getNext" /\ Keys(sourceList) # {})
        => (0 <= sourceList.i /\ sourceList.i < Cardinality(Keys(sourceList)))

\* C26 as amended: a getNext on a list with N >= 1 keys adds exactly one to the
\* stored index, which is never reduced modulo N, and leaves the entries as
\* they are; only the position looked up is taken modulo N
C26_IndexCountsCalls ==
    [][ (lastOp'.op = "getNext" /\ Keys(sourceList) # {})
        => /\ sourceList'.i = sourceList.i + 1
           /\ sourceList'.obj = sourceList.obj
           /\ ret' = sourceList.obj[SortKeys(Keys(sourceList))
                                      [(sourceList.i % Cardinality(Keys(sourceList))) + 1]][1]
      ]_vars

\* a getNext has just run on a list whose stored index has reached the number
\* of its keys
C26_Witness ==
    /\ lastOp.op = "getNext"
    /\ Keys(sourceList) # {}
    /\ sourceList.i >= Cardinality(Keys(sourceList))

\* ---------------------------------------------------------------------------
\* C27  the lists of a running context
\* ---------------------------------------------------------------------------

\* neither list is empty and no key is in both
ListsDisjointNonEmpty ==
    /\ Keys(sourceList) # {}
    /\ Keys(targetList) # {}
    /\ Keys(sourceList) \cap Keys(targetList) = {}

\* C27 as claimed: whenever a paint or place context exists, neither list is
\* empty and no key is in both lists, also after the list callbacks have run
C27_ListsValidWhileContext ==
    ctx.kind # None => ListsDisjointNonEmpty

\* what does hold: a context is created only from lists that are not empty and
\* share no key
C27_ListsValidWhenStarted ==
    [][ (lastOp'.op = "genericContextCallback" /\ ret' \in {"PaintCtx", "PlaceCtx"})
        => (ListsDisjointNonEmpty /\ ListsDisjointNonEmpty') ]_vars

\* a list callback has left the running context with a key that is in both
\* lists
C27_OverlapWhileRunning ==
    /\ ctx.kind # None
    /\ lastOp.op = "uiListCallback"
    /\ Keys(sourceList) \cap Keys(targetList) # {}

\* a list callback has left the running context with an empty list
C27_EmptyWhileRunning ==
    /\ ctx.kind # None
    /\ lastOp.op = "uiListCallback"
    /\ (Keys(sourceList) = {} \/ Keys(targetList) = {})

\* ---------------------------------------------------------------------------
\* C28  the reference addObj stores
\* ---------------------------------------------------------------------------

\* a step on which addObj accepted its candidate and returned the key
AddAccepted == lastOp'.op = "addObj" /\ ret'[1] \notin {None, Raise}

\* the reference stored under the key the add returned
StoredPath == AddedToAfter.obj[ret'[1]][1]

\* the transforms that hold the shape
ParentsOf(shape) ==
    {n \in Nodes : \E k \in 1..Len(ShapeChildren[n]) : ShapeChildren[n][k] = shape}

\* C28 as claimed: the entry a successful addObj stores carries a reference
\* that is not None and whose nodes are in the scene, also when the parent of
\* the accepted shape holds more than one shape
C28_StoredPathLive ==
    [][ AddAccepted
        => (StoredPath # << >> /\ \A j \in 1..Len(StoredPath) : StoredPath[j] \in alive) ]_vars

\* what does hold: the stored reference is None exactly when the parent of the
\* accepted shape holds more than one shape in the scene, and otherwise it is the path from
\* the parent to the shape, both in the scene
C28_StoredPathUnlessSiblings ==
    [][ AddAccepted
        => \E p \in ParentsOf(ret'[1]) :
              IF Cardinality({k \in 1..Len(ShapeChildren[p]) : ShapeChildren[p][k] \in alive}) = 1
              THEN StoredPath = << p, ret'[1] >> /\ p \in alive /\ ret'[1] \in alive
              ELSE StoredPath = << >> ]_vars

\* an accepted shape is stored with the reference None
C28_NullPathStored ==
    /\ lastOp.op = "addObj"
    /\ ret[1] \notin {None, Raise}
    /\ ListOf(lastOp.list).obj[ret[1]][1] = << >>

\* ---------------------------------------------------------------------------
\* C29  the message of a failed start
\* ---------------------------------------------------------------------------

\* the list is not empty and every stored reference names nodes of the scene
ListValid(list) ==
    /\ Keys(list) # {}
    /\ \A k \in Keys(list) :
          LET path == list.obj[k][1]
          IN  path # << >> /\ \A j \in 1..Len(path) : path[j] \in alive

\* the message the priority source > target > both lists picks
PriorityMsg ==
    IF ~ListValid(sourceList) THEN SourceErrorMsg
    ELSE IF ~ListValid(targetList) THEN TargetErrorMsg
    ELSE DuplicateErrorMsg

\* a press of Paint or Place that started no context
FailedStart == lastOp'.op = "genericContextCallback" /\ ret' \notin {"PaintCtx", "PlaceCtx"}

\* C29 as claimed: a failed start reports the one message the priority picks,
\* the source message if the source list is invalid, else the target message
\* if the target list is invalid, else the message about both lists, and
\* changes neither list
C29_OneMessageByPriority ==
    [][ FailedStart
        => /\ error' = PriorityMsg
           /\ sourceList' = sourceList /\ targetList' = targetList ]_vars

\* what does hold: a failed start whose checks all returned reports the message
\* the priority picks and changes neither list, and one whose check raised
\* reports nothing and happens only with a stored reference None
C29_OneMessageWhenChecksReturn ==
    [][ FailedStart
        => /\ sourceList' = sourceList /\ targetList' = targetList
           /\ ret' = False => error' = PriorityMsg
           /\ ret' = Raise
                => /\ error' = error
                   /\ \E k \in Keys(sourceList) \cup Keys(targetList) :
                        \/ (k \in Keys(sourceList) /\ sourceList.obj[k][1] = << >>)
                        \/ (k \in Keys(targetList) /\ targetList.obj[k][1] = << >>) ]_vars

\* a failed start reported the source message although the target list is
\* invalid too: the earlier check wins
C29_SourceBeforeTarget ==
    /\ lastOp.op = "genericContextCallback"
    /\ ret = False
    /\ error = SourceErrorMsg
    /\ ~ListValid(targetList)

\* a failed start reported the message about both lists
C29_DuplicateReported ==
    /\ lastOp.op = "genericContextCallback"
    /\ ret = False
    /\ error = DuplicateErrorMsg
    /\ Keys(sourceList) \cap Keys(targetList) # {}

\* a start failed in an exception and left the status line without any of the
\* three messages
C29_RaisedWithoutMessage ==
    /\ lastOp.op = "genericContextCallback"
    /\ ret = Raise
    /\ error \notin ValidationMsgs

\* ---------------------------------------------------------------------------
\* C30  picking from an empty list
\* ---------------------------------------------------------------------------

\* a step on which getRandom or getNext ran on the source list
PickStep == lastOp'.op \in {"getRandom", "getNext"}

\* C30: on an empty list, whether it never held a key, was cleared or lost its
\* last key to delObj, getRandom and getNext end in an error instead of
\* returning a reference and leave the list as it is, keys and index; on a
\* list with a key they return; delObj of the only key and clrObj leave the
\* list empty
C30_EmptyListPickFails ==
    [][ /\ (PickStep /\ Keys(sourceList) = {})
           => /\ ret' = << Raise >>
              /\ sourceList' = sourceList
              /\ Keys(sourceList') = {} /\ sourceList'.i = sourceList.i
        /\ (PickStep /\ Keys(sourceList) # {}) => ret' # << Raise >>
        /\ (lastOp'.op = "delObj" /\ Keys(AddedTo) = {Candidate}) => Keys(AddedToAfter) = {}
        /\ lastOp'.op = "clrObj" => Keys(AddedToAfter) = {}
      ]_vars

\* getNext has just failed on a source list that is empty after other calls
\* have run
C30_Witness ==
    /\ lastOp.op = "getNext"
    /\ lastOp.list = "source"
    /\ Keys(sourceList) = {}
    /\ ret = << Raise >>
    /\ budget = 0

====
